---- MODULE Spec2Model ----
(***************************************************************************)
(* Model of the AACP session manager of linux-rust/src/bluetooth/aacp.rs:  *)
(* the shared AACPManagerState, the connect state machine, the inbound     *)
(* packet parser (receive_packet), the outbound encoders with send_packet, *)
(* subscribe_to_control_command, and the recv and send tasks.              *)
(*                                                                         *)
(* Bytes are integers 0..255, packets are sequences of bytes.  The code    *)
(* indexes from 0; At(p, i) reads the byte the code writes p[i].           *)
(* Every access to the shared state is made under the one tokio Mutex of   *)
(* AACPManager.state, so each critical section is one atomic action.       *)
(***************************************************************************)
EXTENDS Integers, Sequences, FiniteSets, TLC

VARIABLES
    state,      \* AACPManagerState, the record behind AACPManager.state
    events,     \* what the general event sink (event_tx) has been sent
    inbox,      \* what each control-command subscriber channel has been sent
    file,       \* the devices file: <<>> when absent, <<devices>> when written
    chan,       \* per session: the bounded outbound mpsc channel's content
    wire,       \* per session: the packets the send task wrote to the socket
    connPc,     \* per session: position of the connect call
    elapsed,    \* per session: start.elapsed() of the CID wait, in ms
    recvPc,     \* per session: position of recv_thread
    sendPc,     \* per session: position of send_thread
    received,   \* per session: number of frames sp.recv has returned
    ret,        \* result of the latest send_packet call
    sending,    \* the packet of a send_packet call suspended in sender.send
    saving,     \* per caller of receive_packet: the JSON it is about to write
    closed      \* the subscriber channels whose receiver has been dropped

vars == <<state, events, inbox, file, chan, wire, connPc, elapsed, recvPc,
          sendPc, received, ret, sending, saving, closed>>

(***************************************************************************)
(* Bounds of the model.                                                    *)
(***************************************************************************)
MaxSessions == 1
MaxFrames == 3
MaxSends == 2
MaxSinks == 2
MaxCallers == 2
MaxEchoes == 1
MaxOverlap == 1

Sessions == 1..MaxSessions
\* The sessions of a manager on which connect is called again while an earlier
\* session still runs: MaxOverlap more than the sessions that follow one another.
Connections == 1..(MaxSessions + MaxOverlap)
Sinks == 1..MaxSinks
Callers == 1..MaxCallers

(***************************************************************************)
(* Program constants.                                                      *)
(***************************************************************************)
CONNECT_TIMEOUT == 10000
POLL_INTERVAL == 200
CHANNEL_CAPACITY == 128
ENOTCONN == 107
HEADER_BYTES == <<4, 0, 4, 0>>

SET_FEATURE_FLAGS == 77
REQUEST_NOTIFICATIONS == 15
BATTERY_INFO == 4
CONTROL_COMMAND == 9
EAR_DETECTION == 6
CONVERSATION_AWARENESS == 75
INFORMATION == 29
RENAME == 30
PROXIMITY_KEYS_REQ == 48
PROXIMITY_KEYS_RSP == 49
STEM_PRESS == 25
EQ_DATA == 83
CONNECTED_DEVICES == 46
AUDIO_SOURCE == 14
SMART_ROUTING == 16
SMART_ROUTING_RESP == 17

\* enum ControlCommandIdentifiers, #[repr(u8)]: a variant is its discriminant.
MicMode == 1
ButtonSendMode == 5
VoiceTrigger == 18
SingleClickMode == 20
DoubleClickMode == 21
ClickHoldMode == 22
DoubleClickInterval == 23
ClickHoldInterval == 24
ListeningModeConfigs == 26
OneBudAncMode == 27
CrownRotationDirection == 28
ListeningMode == 13
AutoAnswerMode == 30
ChimeVolume == 31
VolumeSwipeInterval == 35
CallManagementConfig == 36
VolumeSwipeMode == 37
AdaptiveVolumeConfig == 38
SoftwareMuteConfig == 39
ConversationDetectConfig == 40
Ssl == 41
HearingAid == 44
AutoAncStrength == 46
HpsGainSwipe == 47
HrmState == 48
InCaseToneConfig == 49
SiriMultitoneConfig == 50
HearingAssistConfig == 51
AllowOffOption == 52
StemConfig == 57
SleepDetectionConfig == 53
AllowAutoConnect == 54
EarDetectionConfig == 10
AutomaticConnectionConfig == 32
OwnsConnection == 6

ControlCommandIdentifiers ==
    {MicMode, ButtonSendMode, VoiceTrigger, SingleClickMode,
     DoubleClickMode, ClickHoldMode, DoubleClickInterval,
     ClickHoldInterval, ListeningModeConfigs, OneBudAncMode,
     CrownRotationDirection, ListeningMode, AutoAnswerMode, ChimeVolume,
     VolumeSwipeInterval, CallManagementConfig, VolumeSwipeMode,
     AdaptiveVolumeConfig, SoftwareMuteConfig, ConversationDetectConfig,
     Ssl, HearingAid, AutoAncStrength, HpsGainSwipe, HrmState,
     InCaseToneConfig, SiriMultitoneConfig, HearingAssistConfig,
     AllowOffOption, StemConfig, SleepDetectionConfig, AllowAutoConnect,
     EarDetectionConfig, AutomaticConnectionConfig, OwnsConnection}

(***************************************************************************)
(* Byte and sequence helpers.                                              *)
(***************************************************************************)
At(p, i) == p[i + 1]

\* p[from..], the slice of p from 0-based index `from` to its end.
SliceFrom(p, from) == SubSeq(p, from + 1, Len(p))

\* p[from..to], 0-based and `to` exclusive.
Slice(p, from, to) == SubSeq(p, from + 1, to)

starts_with(p, prefix) ==
    /\ Len(p) >= Len(prefix)
    /\ SubSeq(p, 1, Len(prefix)) = prefix

\* Option<T>: None is <<>>, Some(x) is <<x>>.
None == <<>>
Some(x) == <<x>>

\* ControlCommandIdentifiers::from_u8
\* The arms `0x.. => Some(Self::..)` of the match in from_u8.
from_u8_arms ==
    (1 :> MicMode)
    @@ (5 :> ButtonSendMode)
    @@ (18 :> VoiceTrigger)
    @@ (20 :> SingleClickMode)
    @@ (21 :> DoubleClickMode)
    @@ (22 :> ClickHoldMode)
    @@ (23 :> DoubleClickInterval)
    @@ (24 :> ClickHoldInterval)
    @@ (26 :> ListeningModeConfigs)
    @@ (27 :> OneBudAncMode)
    @@ (28 :> CrownRotationDirection)
    @@ (13 :> ListeningMode)
    @@ (30 :> AutoAnswerMode)
    @@ (31 :> ChimeVolume)
    @@ (35 :> VolumeSwipeInterval)
    @@ (36 :> CallManagementConfig)
    @@ (37 :> VolumeSwipeMode)
    @@ (38 :> AdaptiveVolumeConfig)
    @@ (39 :> SoftwareMuteConfig)
    @@ (40 :> ConversationDetectConfig)
    @@ (41 :> Ssl)
    @@ (44 :> HearingAid)
    @@ (46 :> AutoAncStrength)
    @@ (47 :> HpsGainSwipe)
    @@ (48 :> HrmState)
    @@ (49 :> InCaseToneConfig)
    @@ (50 :> SiriMultitoneConfig)
    @@ (51 :> HearingAssistConfig)
    @@ (52 :> AllowOffOption)
    @@ (57 :> StemConfig)
    @@ (53 :> SleepDetectionConfig)
    @@ (54 :> AllowAutoConnect)
    @@ (10 :> EarDetectionConfig)
    @@ (32 :> AutomaticConnectionConfig)
    @@ (6 :> OwnsConnection)

\* Mutant of ControlCommandIdentifiers_from_u8: the arm for 0x39 yields the
\* variant declared on the next line of the enum.
ControlCommandIdentifiers_from_u8_Shifted(value) ==
    IF value \in DOMAIN from_u8_arms
    THEN Some(IF value = 57 THEN SleepDetectionConfig ELSE from_u8_arms[value])
    ELSE None

\* Mutant of ControlCommandIdentifiers_from_u8: a byte with no arm falls back
\* to the first variant.
ControlCommandIdentifiers_from_u8_Fallback(value) ==
    IF value \in DOMAIN from_u8_arms THEN Some(from_u8_arms[value]) ELSE Some(MicMode)

ControlCommandIdentifiers_from_u8(value) ==
    IF value \in DOMAIN from_u8_arms THEN Some(from_u8_arms[value]) ELSE None

(***************************************************************************)
(* Strings.  A Rust String is modelled by its UTF-8 bytes, so that the     *)
(* formatting of addresses and keys is computed, not assumed.              *)
(***************************************************************************)
UpperHexDigit == <<48, 49, 50, 51, 52, 53, 54, 55, 56, 57, 65, 66, 67, 68, 69, 70>>
LowerHexDigit == <<48, 49, 50, 51, 52, 53, 54, 55, 56, 57, 97, 98, 99, 100, 101, 102>>
Colon == 58

\* format!("{:02X}", b)
UpperHex2(b) == <<UpperHexDigit[(b \div 16) + 1], UpperHexDigit[(b % 16) + 1]>>

\* format!("{:02X}:{:02X}:{:02X}:{:02X}:{:02X}:{:02X}", b[0], .., b[5])
FormatMac(b) ==
    UpperHex2(b[1]) \o <<Colon>> \o UpperHex2(b[2]) \o <<Colon>> \o
    UpperHex2(b[3]) \o <<Colon>> \o UpperHex2(b[4]) \o <<Colon>> \o
    UpperHex2(b[5]) \o <<Colon>> \o UpperHex2(b[6])

\* hex::encode(bytes): two lower-case digits per byte.
RECURSIVE hex_encode(_)
hex_encode(bytes) ==
    IF bytes = <<>> THEN <<>>
    ELSE <<LowerHexDigit[(Head(bytes) \div 16) + 1],
           LowerHexDigit[(Head(bytes) % 16) + 1]>> \o hex_encode(Tail(bytes))

Continuation(b) == b >= 128 /\ b <= 191

\* std::str::from_utf8(bytes).is_ok()
RECURSIVE from_utf8_ok(_)
from_utf8_ok(bytes) ==
    IF bytes = <<>> THEN TRUE
    ELSE LET b == bytes[1]
             n == Len(bytes)
         IN  IF b < 128 THEN from_utf8_ok(Tail(bytes))
             ELSE IF b >= 194 /\ b <= 223
                  THEN n >= 2 /\ Continuation(bytes[2])
                       /\ from_utf8_ok(SubSeq(bytes, 3, n))
             ELSE IF b >= 224 /\ b <= 239
                  THEN n >= 3 /\ Continuation(bytes[2]) /\ Continuation(bytes[3])
                       /\ (b = 224 => bytes[2] >= 160)
                       /\ (b = 237 => bytes[2] <= 159)
                       /\ from_utf8_ok(SubSeq(bytes, 4, n))
             ELSE IF b >= 240 /\ b <= 244
                  THEN n >= 4 /\ Continuation(bytes[2]) /\ Continuation(bytes[3])
                       /\ Continuation(bytes[4])
                       /\ (b = 240 => bytes[2] >= 144)
                       /\ (b = 244 => bytes[2] <= 143)
                       /\ from_utf8_ok(SubSeq(bytes, 5, n))
             ELSE FALSE

\* haystack.contains(needle) on byte strings
contains(haystack, needle) ==
    \E i \in 0..(Len(haystack) - Len(needle)) :
        SubSeq(haystack, i + 1, i + Len(needle)) = needle

\* b"SetOwnershipToFalse"
SetOwnershipToFalse ==
    <<83, 101, 116, 79, 119, 110, 101, 114, 115, 104, 105, 112, 84, 111, 70,
      97, 108, 115, 101>>

(***************************************************************************)
(* receive_packet.  A handler maps the shared state and the frame to       *)
(*   state   the shared state after the handler's critical section,        *)
(*   emit    the events sent on event_tx (none when event_tx is None),     *)
(*   deliver the (identifier, value) fanned out to the subscribers,        *)
(*   persist whether the handler goes on to save state.devices,            *)
(*   panic   whether the handler panics (an index or slice out of range,   *)
(*           Vec::remove on an empty Vec): the calling task unwinds.       *)
(***************************************************************************)
\* The outcome of an arm that reaches self.state.lock().
Result(st, emit, deliver, persist, panic) ==
    [state |-> st, emit |-> emit, deliver |-> deliver, persist |-> persist,
     panic |-> panic, lock |-> TRUE]

\* The handler returns (or falls through a log line) without touching
\* anything, the lock included.
Discard(st) ==
    [state |-> st, emit |-> <<>>, deliver |-> <<>>, persist |-> FALSE,
     panic |-> FALSE, lock |-> FALSE]

\* An out-of-range index: the handler panics before it takes the lock.
Panics(st) ==
    [state |-> st, emit |-> <<>>, deliver |-> <<>>, persist |-> FALSE,
     panic |-> TRUE, lock |-> FALSE]

\* if let Some(ref tx) = state.event_tx { let _ = tx.send(ev); }
Emit(st, ev) == IF st.event_tx THEN <<ev>> ELSE <<>>

\* --- BATTERY_INFO -----------------------------------------------------
BatteryEntry(payload, i) ==
    LET base_index == 3 + i * 5
    IN  [component |-> At(payload, base_index),
         level |-> At(payload, base_index + 2),
         status |-> At(payload, base_index + 3)]

\* Mutant of KnownBattery: the status byte is not looked at.
KnownBattery_ComponentOnly(e) == e.component \in {2, 4, 8}

KnownBattery(e) == e.component \in {2, 4, 8} /\ e.status \in {1, 2, 4}

ParseBatteries(payload, count) ==
    SelectSeq([j \in 1..count |-> BatteryEntry(payload, j - 1)], KnownBattery)

\* Mutant of BatteryInfoHandler: the event is sent and the shadow is not written.
BatteryInfoHandler_NoStore(st, payload) ==
    IF Len(payload) < 3 THEN Discard(st)
    ELSE LET count == At(payload, 2)
         IN  IF Len(payload) < 3 + count * 5 THEN Discard(st)
             ELSE Result(st,
                         Emit(st, [tag |-> "BatteryInfo",
                                   list |-> ParseBatteries(payload, count)]),
                         <<>>, FALSE, FALSE)

BatteryInfoHandler(st, payload) ==
    IF Len(payload) < 3 THEN Discard(st)
    ELSE LET count == At(payload, 2)
         IN  IF Len(payload) < 3 + count * 5 THEN Discard(st)
             ELSE LET batteries == ParseBatteries(payload, count)
                      st1 == [st EXCEPT !.battery_info = batteries]
                  IN  Result(st1,
                             Emit(st1, [tag |-> "BatteryInfo", list |-> batteries]),
                             <<>>, FALSE, FALSE)

\* Mutant of TrimValue: an all-zero value is trimmed to the empty vector.
TrimValue_EmptyOnZero(value_bytes) ==
    IF \E i \in 1..Len(value_bytes) : value_bytes[i] # 0
    THEN LET last_non_zero ==
                 CHOOSE i \in 1..Len(value_bytes) :
                     /\ value_bytes[i] # 0
                     /\ \A j \in (i + 1)..Len(value_bytes) : value_bytes[j] = 0
         IN  SubSeq(value_bytes, 1, last_non_zero)
    ELSE <<>>

\* --- CONTROL_COMMAND --------------------------------------------------
\* value_bytes.iter().rposition(|&b| b != 0), then value_bytes[..=i] or vec![0]
TrimValue(value_bytes) ==
    IF \E i \in 1..Len(value_bytes) : value_bytes[i] # 0
    THEN LET last_non_zero ==
                 CHOOSE i \in 1..Len(value_bytes) :
                     /\ value_bytes[i] # 0
                     /\ \A j \in (i + 1)..Len(value_bytes) : value_bytes[j] = 0
         IN  SubSeq(value_bytes, 1, last_non_zero)
    ELSE <<0>>

\* Mutant of UpdateStatusList: the entry is pushed without looking for one.
UpdateStatusList_AlwaysPush(list, identifier, value) ==
    Append(list, [identifier |-> identifier, value |-> value])

\* find(|s| s.identifier == identifier): existing.value = value, else push
UpdateStatusList(list, identifier, value) ==
    IF \E i \in 1..Len(list) : list[i].identifier = identifier
    THEN LET first == CHOOSE i \in 1..Len(list) :
                          /\ list[i].identifier = identifier
                          /\ \A j \in 1..(i - 1) : list[j].identifier # identifier
         IN  [list EXCEPT ![first].value = value]
    ELSE Append(list, [identifier |-> identifier, value |-> value])

\* Mutant of UpdateOwns: any non-zero value byte counts as owning.
UpdateOwns_AnyByte(owns, identifier, value_bytes) ==
    IF identifier = OwnsConnection
    THEN \E i \in 1..Len(value_bytes) : value_bytes[i] # 0
    ELSE owns

\* if identifier == OwnsConnection { state.owns = value_bytes[0] != 0; }
UpdateOwns(owns, identifier, value_bytes) ==
    IF identifier = OwnsConnection THEN value_bytes[1] # 0 ELSE owns

ControlCommandHandler(st, payload) ==
    IF Len(payload) < 7 THEN Discard(st)
    ELSE LET identifier_byte == At(payload, 2)
             value_bytes == Slice(payload, 3, 7)
             value == TrimValue(value_bytes)
             id == ControlCommandIdentifiers_from_u8(identifier_byte)
         IN  IF id = None THEN Discard(st)
             ELSE LET identifier == id[1]
                      status == [identifier |-> identifier, value |-> value]
                      st1 == [st EXCEPT
                                 !.control_command_status_list =
                                     UpdateStatusList(@, identifier, value),
                                 !.owns = UpdateOwns(@, identifier, value_bytes)]
                  IN  Result(st1,
                             Emit(st1, [tag |-> "ControlCommand", status |-> status]),
                             <<status>>, FALSE, FALSE)

\* --- EAR_DETECTION ----------------------------------------------------
EarDetectionStatus_of(b) == IF b \in {0, 1, 2, 3} THEN b ELSE 1

\* Mutant of EarDetectionHandler: previous is copied after current is written.
EarDetectionHandler_OldAfterNew(st, packet) ==
    IF Len(packet) < 8 THEN Panics(st)
    ELSE LET statuses == <<EarDetectionStatus_of(At(packet, 6)),
                           EarDetectionStatus_of(At(packet, 7))>>
             st1 == [st EXCEPT !.old_ear_detection_status = statuses,
                               !.ear_detection_status = statuses]
         IN  Result(st1,
                    Emit(st1, [tag |-> "EarDetection",
                               old |-> st1.old_ear_detection_status,
                               new |-> statuses]),
                    <<>>, FALSE, FALSE)

EarDetectionHandler(st, packet) ==
    IF Len(packet) < 8 THEN Panics(st)
    ELSE LET primary_status == At(packet, 6)
             secondary_status == At(packet, 7)
             statuses == <<EarDetectionStatus_of(primary_status),
                           EarDetectionStatus_of(secondary_status)>>
             st1 == [st EXCEPT !.old_ear_detection_status = st.ear_detection_status,
                               !.ear_detection_status = statuses]
         IN  Result(st1,
                    Emit(st1, [tag |-> "EarDetection",
                               old |-> st1.old_ear_detection_status,
                               new |-> statuses]),
                    <<>>, FALSE, FALSE)

\* --- CONVERSATION_AWARENESS -------------------------------------------
ConversationAwarenessHandler(st, packet) ==
    IF Len(packet) = 10
    THEN LET status == At(packet, 9)
             st1 == [st EXCEPT !.conversational_awareness_status = status]
         IN  Result(st1,
                    Emit(st1, [tag |-> "ConversationalAwareness", awareness |-> status]),
                    <<>>, FALSE, FALSE)
    ELSE Discard(st)

\* --- INFORMATION ------------------------------------------------------
RECURSIVE SkipNonNul(_, _)
SkipNonNul(data, index) ==
    IF index < Len(data) /\ At(data, index) # 0
    THEN SkipNonNul(data, index + 1) ELSE index

RECURSIVE SkipNul(_, _)
SkipNul(data, index) ==
    IF index < Len(data) /\ At(data, index) = 0
    THEN SkipNul(data, index + 1) ELSE index

\* The loop `while index < data.len()`: the NUL-delimited, non-empty, valid
\* UTF-8 strings of data from index on.
RECURSIVE ExtractStrings(_, _)
ExtractStrings(data, index) ==
    IF index >= Len(data) THEN <<>>
    ELSE LET start == SkipNul(data, index)
         IN  IF start >= Len(data) THEN <<>>
             ELSE LET end == SkipNonNul(data, start)
                      str_bytes == Slice(data, start, end)
                  IN  (IF from_utf8_ok(str_bytes) THEN <<str_bytes>> ELSE <<>>)
                          \o ExtractStrings(data, end)

\* strings.get(i).cloned().unwrap_or_default()
GetOrDefault(strings, i) == IF i < Len(strings) THEN At(strings, i) ELSE <<>>

AirPodsInformation(strings) ==
    [name |-> GetOrDefault(strings, 0),
     model_number |-> GetOrDefault(strings, 1),
     manufacturer |-> GetOrDefault(strings, 2),
     serial_number |-> GetOrDefault(strings, 3),
     version1 |-> GetOrDefault(strings, 4),
     version2 |-> GetOrDefault(strings, 5),
     hardware_revision |-> GetOrDefault(strings, 6),
     updater_identifier |-> GetOrDefault(strings, 7),
     left_serial_number |-> GetOrDefault(strings, 8),
     right_serial_number |-> GetOrDefault(strings, 9),
     version3 |-> GetOrDefault(strings, 10),
     le_keys |-> [irk |-> <<>>, enc_key |-> <<>>]]

\* DeviceInformation::AirPods(info)
AirPods(info) == [kind |-> "AirPods", info |-> info]

\* The critical section of the INFORMATION arm on state.devices.
MergeInformation(devices, airpods_mac, info) ==
    IF airpods_mac # None /\ FormatMac(airpods_mac[1]) \in DOMAIN devices
    THEN [devices EXCEPT ![FormatMac(airpods_mac[1])] =
             [@ EXCEPT !.name = info.name, !.information = Some(AirPods(info))]]
    ELSE devices

InformationHandler(st, payload) ==
    IF Len(payload) < 6 THEN Discard(st)
    ELSE LET data == SliceFrom(payload, 4)
             strings == ExtractStrings(data, SkipNonNul(data, 0))
         IN  IF strings = <<>> THEN Panics(st)
             ELSE LET info == AirPodsInformation(Tail(strings))
                      st1 == [st EXCEPT !.devices =
                                 MergeInformation(@, st.airpods_mac, info)]
                  IN  Result(st1, <<>>, <<>>, TRUE, FALSE)
\* enum ProximityKeyType, #[repr(u8)]
Irk == 1
EncKey == 4

\* --- PROXIMITY_KEYS_RSP -----------------------------------------------
\* ProximityKeyType::from_u8
ProximityKeyType_from_u8(value) == IF value \in {1, 4} THEN Some(value) ELSE None

\* The loop `for _ in 0..key_count`: ok is FALSE when it returns early.
RECURSIVE ParseKeys(_, _, _)
ParseKeys(payload, offset, remaining) ==
    IF remaining = 0 THEN [ok |-> TRUE, keys |-> <<>>]
    ELSE IF offset + 3 >= Len(payload) THEN [ok |-> FALSE, keys |-> <<>>]
    ELSE LET key_type == At(payload, offset)
             key_length == At(payload, offset + 2)
             data_at == offset + 4
         IN  IF data_at + key_length > Len(payload)
             THEN [ok |-> FALSE, keys |-> <<>>]
             ELSE LET rest == ParseKeys(payload, data_at + key_length, remaining - 1)
                      key == <<key_type, Slice(payload, data_at, data_at + key_length)>>
                  IN  [ok |-> rest.ok, keys |-> <<key>> \o rest.keys]

\* state.devices.entry(mac_str).or_insert(DeviceData { name: mac_str, .. })
EntryOrInsert(devices, mac_str) ==
    IF mac_str \in DOMAIN devices THEN devices
    ELSE (mac_str :> [name |-> mac_str, type_ |-> "AirPods", information |-> None])
             @@ devices

\* One iteration of `for (key_type, key_data) in &keys`.
ApplyKey(devices, airpods_mac, key) ==
    IF ProximityKeyType_from_u8(key[1]) = None \/ airpods_mac = None THEN devices
    ELSE LET mac_str == FormatMac(airpods_mac[1])
             d1 == EntryOrInsert(devices, mac_str)
             information == d1[mac_str].information
         IN  IF information # None /\ information[1].kind = "AirPods"
             THEN IF key[1] = 1
                  THEN [d1 EXCEPT ![mac_str].information =
                           Some([@[1] EXCEPT !.info.le_keys.irk = hex_encode(key[2])])]
                  ELSE [d1 EXCEPT ![mac_str].information =
                           Some([@[1] EXCEPT !.info.le_keys.enc_key = hex_encode(key[2])])]
             ELSE d1

RECURSIVE ApplyKeys(_, _, _)
ApplyKeys(devices, airpods_mac, keys) ==
    IF keys = <<>> THEN devices
    ELSE ApplyKeys(ApplyKey(devices, airpods_mac, Head(keys)), airpods_mac, Tail(keys))

ProximityKeysHandler(st, payload) ==
    IF Len(payload) < 4 THEN Discard(st)
    ELSE LET key_count == At(payload, 2)
             parsed == ParseKeys(payload, 3, key_count)
         IN  IF ~parsed.ok THEN Discard(st)
             ELSE Result([st EXCEPT !.devices =
                             ApplyKeys(@, st.airpods_mac, parsed.keys)],
                         <<>>, <<>>, TRUE, FALSE)

\* --- AUDIO_SOURCE -----------------------------------------------------
\* AudioSourceType::from_u8(b).unwrap_or(AudioSourceType::None)
AudioSourceType_of(b) == IF b \in {0, 1, 2} THEN b ELSE 0

\* Mutant of AudioSourceHandler: the address bytes are formatted in payload order.
AudioSourceHandler_NotReversed(st, payload) ==
    IF Len(payload) < 9 THEN Discard(st)
    ELSE LET mac == FormatMac(<<At(payload, 2), At(payload, 3), At(payload, 4),
                                At(payload, 5), At(payload, 6), At(payload, 7)>>)
             audio_source == [mac |-> mac, type |-> AudioSourceType_of(At(payload, 8))]
             st1 == [st EXCEPT !.audio_source = Some(audio_source)]
         IN  Result(st1,
                    Emit(st1, [tag |-> "AudioSource", source |-> audio_source]),
                    <<>>, FALSE, FALSE)

AudioSourceHandler(st, payload) ==
    IF Len(payload) < 9 THEN Discard(st)
    ELSE LET mac == FormatMac(<<At(payload, 7), At(payload, 6), At(payload, 5),
                                At(payload, 4), At(payload, 3), At(payload, 2)>>)
             audio_source == [mac |-> mac, type |-> AudioSourceType_of(At(payload, 8))]
             st1 == [st EXCEPT !.audio_source = Some(audio_source)]
         IN  Result(st1,
                    Emit(st1, [tag |-> "AudioSource", source |-> audio_source]),
                    <<>>, FALSE, FALSE)

\* --- CONNECTED_DEVICES ------------------------------------------------
ConnectedDevice(payload, i) ==
    LET base == 5 + i * 8
    IN  [mac |-> FormatMac(Slice(payload, base, base + 6)),
         info1 |-> At(payload, base + 6),
         info2 |-> At(payload, base + 7),
         type |-> None]

ConnectedDevicesHandler(st, payload) ==
    IF Len(payload) < 3 THEN Discard(st)
    ELSE LET count == At(payload, 2)
         IN  IF Len(payload) < 3 + count * 8 THEN Discard(st)
             \* payload[base + 7] of the last entry is index 8 * count + 4
             ELSE IF count > 0 /\ Len(payload) < 8 * count + 5 THEN Panics(st)
             ELSE LET devices == [j \in 1..count |-> ConnectedDevice(payload, j - 1)]
                      st1 == [st EXCEPT !.old_connected_devices = st.connected_devices,
                                        !.connected_devices = devices]
                  IN  Result(st1,
                             Emit(st1, [tag |-> "ConnectedDevices",
                                        old_devices |-> st1.old_connected_devices,
                                        new_devices |-> devices]),
                             <<>>, FALSE, FALSE)

\* --- SMART_ROUTING_RESP -----------------------------------------------
SmartRoutingRespHandler(st, payload) ==
    IF Len(payload) < 2 THEN Panics(st)
    ELSE IF contains(SliceFrom(payload, 2), SetOwnershipToFalse)
         THEN Result(st, Emit(st, [tag |-> "OwnershipToFalseRequest"]),
                     <<>>, FALSE, FALSE)
         ELSE Discard(st)

\* --- the dispatch -----------------------------------------------------
receive_packet(st, packet) ==
    IF ~starts_with(packet, HEADER_BYTES) THEN Discard(st)
    ELSE IF Len(packet) < 5 THEN Discard(st)
    ELSE LET opcode == At(packet, 4)
             payload == SliceFrom(packet, 4)
         IN  CASE opcode = BATTERY_INFO -> BatteryInfoHandler(st, payload)
               [] opcode = CONTROL_COMMAND -> ControlCommandHandler(st, payload)
               [] opcode = EAR_DETECTION -> EarDetectionHandler(st, packet)
               [] opcode = CONVERSATION_AWARENESS ->
                      ConversationAwarenessHandler(st, packet)
               [] opcode = INFORMATION -> InformationHandler(st, payload)
               [] opcode = PROXIMITY_KEYS_RSP -> ProximityKeysHandler(st, payload)
               [] opcode = STEM_PRESS -> Discard(st)
               [] opcode = AUDIO_SOURCE -> AudioSourceHandler(st, payload)
               [] opcode = CONNECTED_DEVICES -> ConnectedDevicesHandler(st, payload)
               [] opcode = SMART_ROUTING_RESP -> SmartRoutingRespHandler(st, payload)
               [] opcode = EQ_DATA -> Discard(st)
               [] OTHER -> Discard(st)

(***************************************************************************)
(* The outbound encoders.                                                  *)
(***************************************************************************)
\* Mutant of DataPacket: the data goes out without the header.
DataPacket_NoHeader(data) == data

\* send_data_packet: [HEADER_BYTES.as_slice(), data].concat()
DataPacket(data) == HEADER_BYTES \o data

\* send_handshake: the packet is handed to send_packet as it is.
Handshake == <<0, 0, 4, 0, 1, 0, 2, 0, 0, 0, 0, 0, 0, 0, 0, 0>>

\* send_notification_request
NotificationRequest ==
    DataPacket(<<REQUEST_NOTIFICATIONS, 0>> \o <<255, 255, 255, 255>>)

\* value.get(i).copied().unwrap_or(0)
ValueByte(value, i) == IF i < Len(value) THEN At(value, i) ELSE 0

\* send_control_command
ControlCommandPacket(identifier, value) ==
    DataPacket(<<CONTROL_COMMAND, 0>> \o <<identifier>>
               \o [i \in 1..4 |-> ValueByte(value, i - 1)])

\* acc | (*kt as u8) on u8
RECURSIVE BitOr(_, _)
BitOr(a, b) ==
    IF a = 0 THEN b
    ELSE IF b = 0 THEN a
    ELSE (IF a % 2 = 1 \/ b % 2 = 1 THEN 1 ELSE 0) + 2 * BitOr(a \div 2, b \div 2)

\* key_types.iter().fold(0u8, |acc, kt| acc | (*kt as u8))
RECURSIVE FoldKeyTypes(_, _)
FoldKeyTypes(key_types, acc) ==
    IF key_types = <<>> THEN acc
    ELSE FoldKeyTypes(Tail(key_types), BitOr(acc, Head(key_types)))

\* send_set_feature_flags_packet
SetFeatureFlagsPacket ==
    DataPacket(<<SET_FEATURE_FLAGS, 0>> \o <<255, 0, 0, 0, 0, 0, 0, 0>>)

\* send_proximity_keys_request
ProximityKeysRequest(key_types) ==
    DataPacket(<<PROXIMITY_KEYS_REQ, 0>> \o <<FoldKeyTypes(key_types, 0), 0>>)

\* send_rename_packet: opcode, 0x00, size as u8, 0x00, the name bytes
RenamePacket(name) ==
    DataPacket(<<RENAME, 0, Len(name) % 256, 0>> \o name)

\* send_some_packet
SomePacket ==
    DataPacket(<<41, 0>> \o <<255, 255, 255, 255, 255, 255, 255, 255>>)

\* str::split(':'): the pieces between the colons, empty pieces included.
RECURSIVE SplitColon(_, _)
SplitColon(str, piece) ==
    IF str = <<>> THEN <<piece>>
    ELSE IF Head(str) = Colon THEN <<piece>> \o SplitColon(Tail(str), <<>>)
    ELSE SplitColon(Tail(str), Append(piece, Head(str)))

\* char::to_digit(16): 0-9, a-f, A-F
HexDigitValue(c) ==
    IF c >= 48 /\ c <= 57 THEN Some(c - 48)
    ELSE IF c >= 65 /\ c <= 70 THEN Some(c - 55)
    ELSE IF c >= 97 /\ c <= 102 THEN Some(c - 87)
    ELSE None

RECURSIVE RadixDigits(_, _)
RadixDigits(digits, acc) ==
    IF digits = <<>> THEN Some(acc)
    ELSE LET d == HexDigitValue(Head(digits))
         IN  IF d = None \/ acc * 16 + d[1] > 255 THEN None
             ELSE RadixDigits(Tail(digits), acc * 16 + d[1])

\* u8::from_str_radix(s, 16): an optional leading '+', then at least one hex
\* digit, the value within u8; None stands for the Err that unwrap() panics on.
from_str_radix(s) ==
    LET digits == IF s # <<>> /\ Head(s) = 43 THEN Tail(s) ELSE s
    IN  IF digits = <<>> THEN None ELSE RadixDigits(digits, 0)

\* target_mac_address.split(':').map(|s| u8::from_str_radix(s, 16).unwrap())
\*     .collect(): the bytes, or None when an unwrap panics.
ParseMacBytes(target_mac_address) ==
    LET pieces == SplitColon(target_mac_address, <<>>)
        parsed == [i \in 1..Len(pieces) |-> from_str_radix(pieces[i])]
    IN  IF \E i \in 1..Len(pieces) : parsed[i] = None THEN None
        ELSE Some([i \in 1..Len(pieces) |-> parsed[i][1]])

\* iter().rev().cloned().collect()
Reverse(bytes) == [i \in 1..Len(bytes) |-> bytes[Len(bytes) + 1 - i]]

\* while buffer.len() < n { buffer.push(0x00) }
PadTo(buffer, n) ==
    IF Len(buffer) < n THEN buffer \o [i \in 1..(n - Len(buffer)) |-> 0]
    ELSE buffer

\* send_media_information_new_device: the buffer after the opcode.
media_information_new_device(self_mac_address, target_mac_bytes) ==
    Reverse(target_mac_bytes) \o
    <<104, 0>> \o   \* 68 00
    <<1, 229, 74>> \o   \* 01 E5 4A
    <<112, 108, 97, 121, 105, 110, 103, 65, 112, 112>> \o   \* b"playingApp"
    <<66>> \o   \* 42
    <<78, 65>> \o   \* b"NA"
    <<82>> \o   \* 52
    <<104, 111, 115, 116, 83, 116, 114, 101, 97, 109, 105, 110, 103, 83, 116, 97, 116, 101>> \o   \* b"hostStreamingState"
    <<66>> \o   \* 42
    <<78, 79>> \o   \* b"NO"
    <<73>> \o   \* 49
    <<98, 116, 65, 100, 100, 114, 101, 115, 115>> \o   \* b"btAddress"
    <<81>> \o   \* 51
    self_mac_address \o
    <<70>> \o   \* 46
    <<98, 116, 78, 97, 109, 101>> \o   \* b"btName"
    <<67>> \o   \* 43
    <<77, 97, 99>> \o   \* b"Mac"
    <<88>> \o   \* 58
    <<111, 116, 104, 101, 114, 68, 101, 118, 105, 99, 101>> \o   \* b"otherDevice"
    <<65, 117, 100, 105, 111, 67, 97, 116, 101, 103, 111, 114, 121>> \o   \* b"AudioCategory"
    <<48, 100>>   \* 30 64

\* send_hijack_request: the buffer, while buffer.len() < 106 { push(0x00) }.
hijack_request(target_mac_bytes) ==
    PadTo(
        Reverse(target_mac_bytes) \o
        <<98, 0>> \o   \* 62 00
        <<1, 229>> \o   \* 01 E5
        <<74>> \o   \* 4A
        <<108, 111, 99, 97, 108, 115, 99, 111, 114, 101>> \o   \* b"localscore"
        <<48, 100>> \o   \* 30 64
        <<70>> \o   \* 46
        <<114, 101, 97, 115, 111, 110>> \o   \* b"reason"
        <<72>> \o   \* 48
        <<72, 105, 106, 97, 99, 107, 118, 50>> \o   \* b"Hijackv2"
        <<81>> \o   \* 51
        <<97, 117, 100, 105, 111, 82, 111, 117, 116, 105, 110, 103, 83, 99, 111, 114, 101>> \o   \* b"audioRoutingScore"
        <<49, 45, 1, 95>> \o   \* 31 2D 01 5F
        <<97, 117, 100, 105, 111, 82, 111, 117, 116, 105, 110, 103, 83, 101, 116, 79, 119, 110, 101, 114, 115, 104, 105, 112, 84, 111, 70, 97, 108, 115, 101>> \o   \* b"audioRoutingSetOwnershipToFalse"
        <<1>> \o   \* 01
        <<75>> \o   \* 4B
        <<114, 101, 109, 111, 116, 101, 115, 99, 111, 114, 101>> \o   \* b"remotescore"
        <<165>>,   \* A5
        106)

\* send_media_information: b"YES" or b"NO" by streaming_state, padded to 138.
media_information(self_mac_address, target_mac_bytes, streaming_state) ==
    PadTo(
        Reverse(target_mac_bytes) \o
        <<130, 0>> \o   \* 82 00
        <<1, 229, 74>> \o   \* 01 E5 4A
        <<80, 108, 97, 121, 105, 110, 103, 65, 112, 112>> \o   \* b"PlayingApp"
        <<86>> \o   \* 56
        <<99, 111, 109, 46, 103, 111, 111, 103, 108, 101, 46, 105, 111, 115, 46, 121, 111, 117, 116, 117, 98, 101>> \o   \* b"com.google.ios.youtube"
        <<82>> \o   \* 52
        <<72, 111, 115, 116, 83, 116, 114, 101, 97, 109, 105, 110, 103, 83, 116, 97, 116, 101>> \o   \* b"HostStreamingState"
        <<66>> \o   \* 42
        (IF streaming_state THEN <<89, 69, 83>> ELSE <<78, 79>>) \o
        <<73>> \o   \* 49
        <<98, 116, 65, 100, 100, 114, 101, 115, 115>> \o   \* b"btAddress"
        <<81>> \o   \* 51
        self_mac_address \o
        <<98, 116, 78, 97, 109, 101>> \o   \* b"btName"
        <<67>> \o   \* 43
        <<77, 97, 99>> \o   \* b"Mac"
        <<88>> \o   \* 58
        <<111, 116, 104, 101, 114, 68, 101, 118, 105, 99, 101>> \o   \* b"otherDevice"
        <<65, 117, 100, 105, 111, 67, 97, 116, 101, 103, 111, 114, 121>> \o   \* b"AudioCategory"
        <<49, 45, 1>>,   \* 31 2D 01
        138)

\* send_smart_routing_show_ui: the buffer padded to 134.
smart_routing_show_ui(target_mac_bytes) ==
    PadTo(
        Reverse(target_mac_bytes) \o
        <<126, 0>> \o   \* 7E 00
        <<1, 230, 91>> \o   \* 01 E6 5B
        <<83, 109, 97, 114, 116, 82, 111, 117, 116, 105, 110, 103, 75, 101, 121, 83, 104, 111, 119, 78, 101, 97, 114, 98, 121, 85, 73>> \o   \* b"SmartRoutingKeyShowNearbyUI"
        <<1>> \o   \* 01
        <<74>> \o   \* 4A
        <<108, 111, 99, 97, 108, 115, 99, 111, 114, 101>> \o   \* b"localscore"
        <<49, 45>> \o   \* 31 2D
        <<1>> \o   \* 01
        <<70>> \o   \* 46
        <<114, 101, 97, 115, 111, 110, 72, 104, 105, 106, 97, 99, 107, 118, 50>> \o   \* b"reasonHhijackv2"
        <<81>> \o   \* 51
        <<97, 117, 100, 105, 111, 82, 111, 117, 116, 105, 110, 103, 83, 99, 111, 114, 101>> \o   \* b"audioRoutingScore"
        <<162>> \o   \* A2
        <<95>> \o   \* 5F
        <<97, 117, 100, 105, 111, 82, 111, 117, 116, 105, 110, 103, 83, 101, 116, 79, 119, 110, 101, 114, 115, 104, 105, 112, 84, 111, 70, 97, 108, 115, 101>> \o   \* b"audioRoutingSetOwnershipToFalse"
        <<1>> \o   \* 01
        <<75>> \o   \* 4B
        <<114, 101, 109, 111, 116, 101, 115, 99, 111, 114, 101>> \o   \* b"remotescore"
        <<162>>,   \* A2
        134)

\* send_hijack_reversed: the buffer padded to 97.
hijack_reversed(target_mac_bytes) ==
    PadTo(
        Reverse(target_mac_bytes) \o
        <<89, 0>> \o   \* 59 00
        <<1, 227>> \o   \* 01 E3
        <<95>> \o   \* 5F
        <<97, 117, 100, 105, 111, 82, 111, 117, 116, 105, 110, 103, 83, 101, 116, 79, 119, 110, 101, 114, 115, 104, 105, 112, 84, 111, 70, 97, 108, 115, 101>> \o   \* b"audioRoutingSetOwnershipToFalse"
        <<1>> \o   \* 01
        <<89>> \o   \* 59
        <<97, 117, 100, 105, 111, 82, 111, 117, 116, 105, 110, 103, 83, 104, 111, 119, 82, 101, 118, 101, 114, 115, 101, 85, 73>> \o   \* b"audioRoutingShowReverseUI"
        <<1>> \o   \* 01
        <<70>> \o   \* 46
        <<114, 101, 97, 115, 111, 110>> \o   \* b"reason"
        <<83>> \o   \* 53
        <<82, 101, 118, 101, 114, 115, 101, 66, 97, 110, 110, 101, 114, 84, 97, 112, 112, 101, 100>>,   \* b"ReverseBannerTapped"
        97)

\* send_add_tipi_device: the buffer after the opcode; no padding loop.
add_tipi_device(self_mac_address, target_mac_bytes) ==
    Reverse(target_mac_bytes) \o
    <<78, 0>> \o   \* 4E 00
    <<1, 229>> \o   \* 01 E5
    <<72, 105>> \o   \* 48 69
    <<105, 100, 108, 101, 84, 105, 109, 101>> \o   \* b"idleTime"
    <<8, 71>> \o   \* 08 47
    <<110, 101, 119, 84, 105, 112, 105>> \o   \* b"newTipi"
    <<1, 73>> \o   \* 01 49
    <<98, 116, 65, 100, 100, 114, 101, 115, 115>> \o   \* b"btAddress"
    <<81>> \o   \* 51
    self_mac_address \o
    <<70>> \o   \* 46
    <<98, 116, 78, 97, 109, 101>> \o   \* b"btName"
    <<67>> \o   \* 43
    <<77, 97, 99>> \o   \* b"Mac"
    <<80>> \o   \* 50
    <<110, 101, 97, 114, 98, 121, 65, 117, 100, 105, 111, 83, 99, 111, 114, 101>> \o   \* b"nearbyAudioScore"
    <<14>>   \* 0E

\* [opcode.as_slice(), buffer.as_slice()].concat() handed to send_data_packet
SmartRoutingPacket(buffer) == DataPacket(<<SMART_ROUTING, 0>> \o buffer)

(***************************************************************************)
(* The inputs the model draws from.                                        *)
(***************************************************************************)
\* The peer address handed to connect.
PeerAddr == <<170, 187, 204, 221, 238, 255>>
PeerMac == FormatMac(PeerAddr)

StoredInfo ==
    [AirPodsInformation(<<>>) EXCEPT !.name = <<80>>,
                                     !.le_keys = [irk |-> <<49, 49>>, enc_key |-> <<>>]]

\* What get_devices_path() may hold when the manager is constructed.
InitialDevices ==
    { <<>>,
      PeerMac :> [name |-> <<80>>, type_ |-> "AirPods",
                  information |-> Some(AirPods(StoredInfo))] }

FsOutcomes == {"ok", "mkdir_err", "write_err"}

ValueQuads == { <<0, 0, 0, 0>>, <<1, 0, 0, 0>>, <<0, 2, 0, 0>> }

\* Identifier bytes of inbound control commands; 2 is in no enum variant.
FrameIdentifiers == {OwnsConnection, SingleClickMode, 2}

Frame(body) == HEADER_BYTES \o body

ControlFrames ==
    { Frame(<<CONTROL_COMMAND, 0, id>> \o vb) : id \in FrameIdentifiers, vb \in ValueQuads }

BatteryFrames ==
    { Frame(<<BATTERY_INFO, 0, 2, 4, 1, 50, 1, 0, 2, 1, 40, 2, 0>>),
      Frame(<<BATTERY_INFO, 0, 2, 4, 1, 50, 3, 0, 9, 1, 40, 2, 0>>) }

EarFrames ==
    { Frame(<<EAR_DETECTION, 0, 0, 1>>), Frame(<<EAR_DETECTION, 0, 2, 7>>),
      Frame(<<EAR_DETECTION, 0, 2, 2>>) }

AwarenessFrames ==
    { Frame(<<CONVERSATION_AWARENESS, 0, 2, 0, 1, 3>>) }

AudioFrames ==
    { Frame(<<AUDIO_SOURCE, 0, 170, 187, 204, 221, 238, 255, 2>>) }

ConnectedFrames ==
    { Frame(<<CONNECTED_DEVICES, 0, 1, 0, 0, 1, 2, 3, 4, 5, 171, 7, 8>>),
      Frame(<<CONNECTED_DEVICES, 0, 0>>),
      Frame(<<CONNECTED_DEVICES, 0, 1, 0, 0, 1, 2, 3, 4, 5, 171>>) }

InformationFrames ==
    { Frame(<<INFORMATION, 0, 1, 0, 9, 9, 0, 88, 0, 0, 65, 66, 0, 255, 0, 77>>) }

\* One key each: key_type, 0x00, key_length 16, 0x00, the 16 key bytes.
KeysFrames ==
    { Frame(<<PROXIMITY_KEYS_RSP, 0, 1, 1, 0, 16, 0,
              171, 5, 1, 2, 3, 4, 5, 6, 7, 8, 9, 10, 11, 12, 13, 254>>),
      Frame(<<PROXIMITY_KEYS_RSP, 0, 1, 4, 0, 16, 0,
              1, 239, 16, 32, 48, 64, 80, 96, 112, 128, 144, 160, 176, 192, 208, 15>>) }

RoutingFrames ==
    { Frame(<<SMART_ROUTING_RESP, 0, 1>> \o SetOwnershipToFalse \o <<1>>),
      Frame(<<SMART_ROUTING_RESP, 0>>) }

IgnoredFrames ==
    { Frame(<<STEM_PRESS, 0, 5, 1>>), Frame(<<EQ_DATA, 0>>), Frame(<<23, 0>>) }

\* Frames their parser has to refuse.
MalformedFrames ==
    { <<4, 0, 4, 1, CONTROL_COMMAND, 0, 6, 1, 0, 0, 0>>,
      HEADER_BYTES,
      <<4, 0, 4>>,
      Frame(<<BATTERY_INFO, 0>>),
      Frame(<<BATTERY_INFO, 0, 2, 4, 1, 50, 1, 0>>),
      Frame(<<CONTROL_COMMAND, 0, 6, 1, 0, 0>>),
      Frame(<<EAR_DETECTION, 0, 0>>),
      Frame(<<EAR_DETECTION>>),
      Frame(<<CONVERSATION_AWARENESS, 0, 2, 0, 1>>),
      Frame(<<INFORMATION, 0, 1, 0, 9>>),
      Frame(<<INFORMATION, 0, 1, 0, 9, 9>>),
      Frame(<<INFORMATION, 0, 1, 0, 9, 9, 0, 0>>),
      Frame(<<PROXIMITY_KEYS_RSP, 0, 1>>),
      Frame(<<PROXIMITY_KEYS_RSP, 0, 1, 1, 0, 2>>),
      Frame(<<PROXIMITY_KEYS_RSP, 0, 1, 1, 0, 2, 0, 171>>),
      Frame(<<AUDIO_SOURCE, 0, 170, 187, 204, 221, 238, 255>>),
      Frame(<<CONNECTED_DEVICES, 0>>),
      Frame(<<CONNECTED_DEVICES, 0, 1, 0, 0, 1, 2, 3, 4, 5>>),
      Frame(<<SMART_ROUTING_RESP>>) }

Frames ==
    ControlFrames \cup BatteryFrames \cup EarFrames \cup AwarenessFrames
        \cup AudioFrames \cup ConnectedFrames \cup InformationFrames
        \cup KeysFrames \cup RoutingFrames \cup IgnoredFrames
        \cup MalformedFrames

\* The packets the callers send.
OutboundPackets == { Handshake, ControlCommandPacket(OwnsConnection, <<1>>) }

\* The identifiers the callers subscribe to.
SubscribedIdentifiers == {OwnsConnection, SingleClickMode}

(***************************************************************************)
(* The state after AACPManager::new().                                     *)
(***************************************************************************)
AACPManagerState_new(devices) ==
    [sender |-> 0,     \* None is 0, Some(tx) is the session whose channel tx feeds
     control_command_status_list |-> <<>>,
     control_command_subscribers |-> [i \in ControlCommandIdentifiers |-> <<>>],
     owns |-> FALSE,
     old_connected_devices |-> <<>>,
     connected_devices |-> <<>>,
     audio_source |-> None,
     battery_info |-> <<>>,
     conversational_awareness_status |-> 0,
     old_ear_detection_status |-> <<>>,
     ear_detection_status |-> <<>>,
     event_tx |-> FALSE,
     devices |-> devices,
     airpods_mac |-> None]

Init ==
    /\ \E devices \in InitialDevices :
           /\ state = AACPManagerState_new(devices)
           /\ file = IF devices = <<>> THEN None ELSE Some(devices)
    /\ events = <<>>
    /\ inbox = [k \in Sinks |-> <<>>]
    /\ chan = [s \in Connections |-> <<>>]
    /\ wire = [s \in Connections |-> <<>>]
    /\ connPc = [s \in Connections |-> "idle"]
    /\ elapsed = [s \in Connections |-> 0]
    /\ recvPc = [s \in Connections |-> "unspawned"]
    /\ sendPc = [s \in Connections |-> "unspawned"]
    /\ received = [s \in Connections |-> 0]
    /\ ret = "none"
    /\ sending = None
    /\ saving = [c \in Callers |-> None]
    /\ closed = {}

(***************************************************************************)
(* connect                                                                 *)
(***************************************************************************)
\* Mutant of LockFree: the lock is handed out while a critical section is
\* suspended (the guard is dropped before the file writes).
LockFree_Always == TRUE

\* No task is suspended inside a critical section of the state mutex (in
\* sender.send(..).await of send_packet, or in the file writes of
\* receive_packet): self.state.lock().await returns.
LockFree == sending = None /\ \A c \in Callers : saving[c] = None

RecvLive(s) == recvPc[s] \in {"running", "eof", "err"}

\* The positions at which connect returns without having spawned the tasks:
\* socket creation failed, connect failed, connect timed out, ENOTCONN in the
\* CID wait, the CID wait timed out.
FailedPcs ==
    {"ret_socket", "ret_connect", "ret_timeout", "ret_enotconn", "ret_cid_timeout"}

Returned(s) == connPc[s] \in FailedPcs \cup {"ready"}

\* One session per manager at a time: connect is called again only once the
\* earlier call has returned and the earlier recv task has ended.
MayConnect(s) ==
    \A t \in Sessions : t < s => Returned(t) /\ ~RecvLive(t)

\* Mutant of ConnectStart: the sender handle is installed before the socket exists.
ConnectStart_InstallsSender(s) ==
    /\ connPc[s] = "idle"
    /\ LockFree
    /\ MayConnect(s)
    /\ state' = [state EXCEPT !.airpods_mac = Some(PeerAddr), !.sender = s]
    /\ connPc' = [connPc EXCEPT ![s] = "socket"]
    /\ UNCHANGED <<events, inbox, file, chan, wire, elapsed, recvPc, sendPc,
                   received, ret, sending, saving, closed>>

\* state.airpods_mac = Some(addr)
ConnectStart(s) ==
    /\ connPc[s] = "idle"
    /\ LockFree
    /\ MayConnect(s)
    /\ state' = [state EXCEPT !.airpods_mac = Some(PeerAddr)]
    /\ connPc' = [connPc EXCEPT ![s] = "socket"]
    /\ UNCHANGED <<events, inbox, file, chan, wire, elapsed, recvPc, sendPc,
                   received, ret, sending, saving, closed>>

\* connect called again on the manager while the recv task of an earlier
\* session still runs.  Nothing in connect looks at the earlier session; the
\* earlier calls have returned (connect takes &mut self).
ConnectAgain(s) ==
    /\ connPc[s] = "idle"
    /\ LockFree
    /\ \A t \in Connections : t < s => connPc[t] = "ready"
    /\ \E t \in Connections : t < s /\ RecvLive(t)
    /\ state' = [state EXCEPT !.airpods_mac = Some(PeerAddr)]
    /\ connPc' = [connPc EXCEPT ![s] = "socket"]
    /\ UNCHANGED <<events, inbox, file, chan, wire, elapsed, recvPc, sendPc,
                   received, ret, sending, saving, closed>>

\* Socket::new_seq_packet()
SocketNew(s, ok) ==
    /\ connPc[s] = "socket"
    /\ connPc' = [connPc EXCEPT ![s] = IF ok THEN "connect" ELSE "ret_socket"]
    /\ UNCHANGED <<state, events, inbox, file, chan, wire, elapsed, recvPc,
                   sendPc, received, ret, sending, saving, closed>>

\* tokio::time::timeout(CONNECT_TIMEOUT, socket.connect(target_sa))
SocketConnect(s, outcome) ==
    /\ connPc[s] = "connect"
    /\ connPc' = [connPc EXCEPT ![s] =
                    IF outcome = "ok" THEN "polling"
                    ELSE IF outcome = "err" THEN "ret_connect" ELSE "ret_timeout"]
    /\ elapsed' = [elapsed EXCEPT ![s] = 0]
    /\ UNCHANGED <<state, events, inbox, file, chan, wire, recvPc, sendPc,
                   received, ret, sending, saving, closed>>

Min(a, b) == IF a < b THEN a ELSE b

\* What seq_packet.peer_addr() may return: Ok(peer) with peer.cid = v, or
\* Err(e) with e.raw_os_error() = Some(v).
PeerAddrOutcomes ==
    { [ok |-> TRUE, v |-> 0], [ok |-> TRUE, v |-> 64],
      [ok |-> FALSE, v |-> ENOTCONN], [ok |-> FALSE, v |-> 104] }

\* Mutant of PollCid: every peer-address error ends the call.
PollCid_AnyErrorReturns(s, outcome, slept) ==
    /\ connPc[s] = "polling"
    /\ IF outcome.ok /\ outcome.v # 0
       THEN connPc' = [connPc EXCEPT ![s] = "established"] /\ UNCHANGED elapsed
       ELSE IF ~outcome.ok
       THEN connPc' = [connPc EXCEPT ![s] = "ret_enotconn"] /\ UNCHANGED elapsed
       ELSE IF elapsed[s] >= CONNECT_TIMEOUT
       THEN connPc' = [connPc EXCEPT ![s] = "ret_cid_timeout"] /\ UNCHANGED elapsed
       ELSE /\ elapsed' = [elapsed EXCEPT ![s] = Min(@ + slept, CONNECT_TIMEOUT)]
            /\ UNCHANGED connPc
    /\ UNCHANGED <<state, events, inbox, file, chan, wire, recvPc, sendPc,
                   received, ret, sending, saving, closed>>

\* One turn of the loop on seq_packet.peer_addr(); `slept` is the time the
\* turn takes when it goes on to sleep(POLL_INTERVAL).
PollCid(s, outcome, slept) ==
    /\ connPc[s] = "polling"
    /\ IF outcome.ok /\ outcome.v # 0
       THEN connPc' = [connPc EXCEPT ![s] = "established"] /\ UNCHANGED elapsed
       ELSE IF ~outcome.ok /\ outcome.v = ENOTCONN
       THEN connPc' = [connPc EXCEPT ![s] = "ret_enotconn"] /\ UNCHANGED elapsed
       ELSE IF elapsed[s] >= CONNECT_TIMEOUT
       THEN connPc' = [connPc EXCEPT ![s] = "ret_cid_timeout"] /\ UNCHANGED elapsed
       ELSE /\ elapsed' = [elapsed EXCEPT ![s] = Min(@ + slept, CONNECT_TIMEOUT)]
            /\ UNCHANGED connPc
    /\ UNCHANGED <<state, events, inbox, file, chan, wire, recvPc, sendPc,
                   received, ret, sending, saving, closed>>

\* let (tx, rx) = mpsc::channel(128); state.sender = Some(tx)
InstallSender(s) ==
    /\ connPc[s] = "established"
    /\ LockFree
    /\ state' = [state EXCEPT !.sender = s]
    /\ chan' = [chan EXCEPT ![s] = <<>>]
    /\ connPc' = [connPc EXCEPT ![s] = "sender_set"]
    /\ UNCHANGED <<events, inbox, file, wire, elapsed, recvPc, sendPc, received, ret,
                   sending, saving, closed>>

\* tasks.spawn(recv_thread(..)); tasks.spawn(send_thread(..))
SpawnTasks(s) ==
    /\ connPc[s] = "sender_set"
    /\ recvPc' = [recvPc EXCEPT ![s] = "running"]
    /\ sendPc' = [sendPc EXCEPT ![s] = "running"]
    /\ connPc' = [connPc EXCEPT ![s] = "ready"]
    /\ UNCHANGED <<state, events, inbox, file, chan, wire, elapsed, received, ret,
                   sending, saving, closed>>

(***************************************************************************)
(* The callers of the manager.                                             *)
(***************************************************************************)
\* Whether send_thread of session s still holds the receiver rx.
ReceiverAlive(s) == sendPc[s] \in {"unspawned", "running"}

\* Mutant of SendResult: a send without a sender handle reports success.
SendResult_AlwaysOk(st, s) ==
    IF st.sender # 0 /\ ~ReceiverAlive(st.sender)
    THEN "NotConnected: L2CAP send channel closed"
    ELSE "Ok"

\* send_packet: the result returned to the caller.
SendResult(st, s) ==
    IF st.sender = 0 THEN "NotConnected: L2CAP stream not connected"
    ELSE IF ~ReceiverAlive(st.sender) THEN "NotConnected: L2CAP send channel closed"
    ELSE "Ok"

\* Mutant of Enqueue: the packet is put at the front of the queue.
Enqueue_AtFront(queue, result, data) ==
    IF result = "Ok" THEN <<data>> \o queue ELSE queue

\* send_packet: what sender.send(data.to_vec()) leaves in the channel.
Enqueue(queue, result, data) == IF result = "Ok" THEN Append(queue, data) ELSE queue

\* Mutant of send_packet: a full channel is an error (try_send) and the
\* packet is dropped.
send_packet_TrySend(data, budget) ==
    /\ LockFree
    /\ \A s \in Connections :
           state.sender = s => Len(chan[s]) + Len(wire[s]) < budget
    /\ IF /\ state.sender # 0
          /\ ReceiverAlive(state.sender)
          /\ Len(chan[state.sender]) >= CHANNEL_CAPACITY
       THEN /\ ret' = "NotConnected: L2CAP send channel closed"
            /\ UNCHANGED <<sending, chan>>
       ELSE /\ ret' = SendResult(state, state.sender)
            /\ chan' = [s \in Connections |->
                           IF state.sender = s THEN Enqueue(chan[s], ret', data)
                           ELSE chan[s]]
            /\ UNCHANGED sending
    /\ UNCHANGED <<state, events, inbox, file, wire, connPc, elapsed, recvPc,
                   sendPc, received, saving, closed>>

\* send_packet(data).  The call takes the state lock; with no sender, or with
\* the receiver gone, it returns an error; with room in the channel it
\* enqueues and returns Ok; with the channel full, sender.send(..).await
\* suspends and the call keeps the lock.  budget bounds the packets of a run.
send_packet(data, budget) ==
    /\ LockFree
    /\ \A s \in Connections :
           state.sender = s => Len(chan[s]) + Len(wire[s]) < budget
    /\ IF /\ state.sender # 0
          /\ ReceiverAlive(state.sender)
          /\ Len(chan[state.sender]) >= CHANNEL_CAPACITY
       THEN /\ sending' = Some(data)
            /\ UNCHANGED <<ret, chan>>
       ELSE /\ ret' = SendResult(state, state.sender)
            /\ chan' = [s \in Connections |->
                           IF state.sender = s THEN Enqueue(chan[s], ret', data)
                           ELSE chan[s]]
            /\ UNCHANGED sending
    /\ UNCHANGED <<state, events, inbox, file, wire, connPc, elapsed, recvPc,
                   sendPc, received, saving, closed>>

SendPacket(data) == send_packet(data, MaxSends)

\* Mutant of SendResume: the suspended send gives its lock up while it waits
\* and has to take the lock again to complete.
SendResume_TakesLock ==
    /\ sending # None
    /\ LockFree
    /\ IF ReceiverAlive(state.sender)
       THEN /\ Len(chan[state.sender]) < CHANNEL_CAPACITY
            /\ ret' = "Ok"
            /\ chan' = [chan EXCEPT ![state.sender] = Append(@, sending[1])]
       ELSE /\ ret' = "NotConnected: L2CAP send channel closed"
            /\ UNCHANGED chan
    /\ sending' = None
    /\ UNCHANGED <<state, events, inbox, file, wire, connPc, elapsed, recvPc,
                   sendPc, received, saving, closed>>

\* The suspended sender.send(..).await completes: with a free slot the packet
\* is enqueued, with the receiver dropped the call returns the error.
SendResume ==
    /\ sending # None
    /\ IF ReceiverAlive(state.sender)
       THEN /\ Len(chan[state.sender]) < CHANNEL_CAPACITY
            /\ ret' = "Ok"
            /\ chan' = [chan EXCEPT ![state.sender] = Append(@, sending[1])]
       ELSE /\ ret' = "NotConnected: L2CAP send channel closed"
            /\ UNCHANGED chan
    /\ sending' = None
    /\ UNCHANGED <<state, events, inbox, file, wire, connPc, elapsed, recvPc,
                   sendPc, received, saving, closed>>

\* set_event_channel
SetEventChannel ==
    /\ ~state.event_tx
    /\ LockFree
    /\ state' = [state EXCEPT !.event_tx = TRUE]
    /\ UNCHANGED <<events, inbox, file, chan, wire, connPc, elapsed, recvPc,
                   sendPc, received, ret, sending, saving, closed>>

Subscribed(st, k) ==
    \E i \in ControlCommandIdentifiers :
        \E j \in 1..Len(st.control_command_subscribers[i]) :
            st.control_command_subscribers[i][j] = k

\* Mutant of InitialValue: nothing is sent at subscribe time.
InitialValue_Nothing(list, identifier) == <<>>

\* The value subscribe_to_control_command sends at once: that of the first
\* entry of the shadow with this identifier.
InitialValue(list, identifier) ==
    LET found == SelectSeq(list, LAMBDA e : e.identifier = identifier)
    IN  IF found = <<>> THEN <<>> ELSE <<found[1].value>>

\* subscribe_to_control_command(identifier, tx), tx the sender of sink k
Subscribe(k, identifier) ==
    /\ ~Subscribed(state, k)
    /\ LockFree
    /\ state' = [state EXCEPT !.control_command_subscribers[identifier] = Append(@, k)]
    /\ inbox' = [inbox EXCEPT ![k] =
                    IF k \in closed THEN @
                    ELSE @ \o InitialValue(state.control_command_status_list,
                                           identifier)]
    /\ UNCHANGED <<events, file, chan, wire, connPc, elapsed, recvPc, sendPc,
                   received, ret, sending, saving, closed>>

(***************************************************************************)
(* recv_thread                                                             *)
(***************************************************************************)
\* Mutant of FanOut: the loop ends at the first subscriber whose channel is
\* closed (sub.send(..)? instead of let _ = sub.send(..)).
FanOut_StopsAtClosed(inb, subscribers, deliver) ==
    IF deliver = <<>> THEN inb
    ELSE LET subs == subscribers[deliver[1].identifier]
             reached(i) == \A j \in 1..i : subs[j] \notin closed
         IN  [k \in DOMAIN inb |->
                 inb[k] \o [j \in 1..Cardinality({i \in 1..Len(subs) :
                                                      subs[i] = k /\ reached(i)})
                               |-> deliver[1].value]]

\* for sub in subscribers { let _ = sub.send(value.clone()); }
\* A send on a channel whose receiver is dropped fails and the result is
\* discarded.
FanOut(inb, subscribers, deliver) ==
    IF deliver = <<>> THEN inb
    ELSE [k \in DOMAIN inb |->
             IF k \in closed THEN inb[k]
             ELSE inb[k] \o [j \in 1..Cardinality({i \in 1..Len(subscribers[deliver[1].identifier]) :
                                                      subscribers[deliver[1].identifier][i] = k})
                               |-> deliver[1].value]]

\* The owner of subscriber channel k drops its receiver.
CloseSink(k) ==
    /\ k \notin closed
    /\ closed' = closed \cup {k}
    /\ UNCHANGED <<state, events, inbox, file, chan, wire, connPc, elapsed,
                   recvPc, sendPc, received, ret, sending, saving>>

\* serde_json::to_string(&state.devices), create_dir_all, tokio::fs::write
Persist(f, devices, persist, fs) ==
    IF persist /\ fs = "ok" THEN Some(devices) ELSE f

\* Ok(n): manager.receive_packet(&buf[..n])
RecvPacket(s, packet, fs) ==
    /\ recvPc[s] = "running"
    /\ received[s] < MaxFrames
    /\ received' = [received EXCEPT ![s] = @ + 1]
    /\ LET r == receive_packet(state, packet)
       IN  /\ r.lock => LockFree
           /\ state' = r.state
           /\ events' = events \o r.emit
           /\ inbox' = FanOut(inbox, state.control_command_subscribers, r.deliver)
           /\ file' = Persist(file, r.state.devices, r.persist, fs)
           /\ recvPc' = [recvPc EXCEPT ![s] = IF r.panic THEN "panicked" ELSE "running"]
    /\ UNCHANGED <<chan, wire, connPc, elapsed, sendPc, ret, sending, saving, closed>>

\* Ok(0): break
RecvEof(s) ==
    /\ recvPc[s] = "running"
    /\ recvPc' = [recvPc EXCEPT ![s] = "eof"]
    /\ UNCHANGED <<state, events, inbox, file, chan, wire, connPc, elapsed,
                   sendPc, received, ret, sending, saving, closed>>

\* Mutant of ClearOnError: the ownership flag is left as it is.
ClearOnError_KeepsOwns(st) ==
    [st EXCEPT !.connected_devices = <<>>,
               !.control_command_status_list = <<>>]

\* Mutant of ClearOnError: the control-command shadow is left as it is.
ClearOnError_KeepsShadow(st) ==
    [st EXCEPT !.owns = FALSE,
               !.connected_devices = <<>>]

\* The Err(e) arm of recv_thread on the shared state.
ClearOnError(st) ==
    [st EXCEPT !.owns = FALSE,
               !.connected_devices = <<>>,
               !.control_command_status_list = <<>>]

\* Err(e): clear the state variables, break
RecvError(s) ==
    /\ recvPc[s] = "running"
    /\ LockFree
    /\ state' = ClearOnError(state)
    /\ recvPc' = [recvPc EXCEPT ![s] = "err"]
    /\ UNCHANGED <<events, inbox, file, chan, wire, connPc, elapsed, sendPc,
                   received, ret, sending, saving, closed>>

\* Mutant of ClearSender: the sender handle is left in place.
ClearSender_Keeps(st) == st

\* After the loop: state.sender = None
ClearSender(st) == [st EXCEPT !.sender = 0]

RecvExit(s) ==
    /\ recvPc[s] \in {"eof", "err"}
    /\ LockFree
    /\ state' = ClearSender(state)
    /\ recvPc' = [recvPc EXCEPT ![s] = IF recvPc[s] = "eof" THEN "done_eof" ELSE "done_err"]
    /\ UNCHANGED <<events, inbox, file, chan, wire, connPc, elapsed, sendPc,
                   received, ret, sending, saving, closed>>

(***************************************************************************)
(* send_thread                                                             *)
(***************************************************************************)
\* Mutant of SendWrite: after a failed write the loop takes the next packet.
SendWrite_GoesOn(s, ok) ==
    /\ sendPc[s] = "running"
    /\ chan[s] # <<>>
    /\ chan' = [chan EXCEPT ![s] = Tail(@)]
    /\ wire' = [wire EXCEPT ![s] = IF ok THEN Append(@, Head(chan[s])) ELSE @]
    /\ UNCHANGED <<state, events, inbox, file, connPc, elapsed, recvPc, sendPc,
                   received, ret, sending, saving, closed>>

\* rx.recv() returned Some(data); sp.send(&data) succeeded or failed.
SendWrite(s, ok) ==
    /\ sendPc[s] = "running"
    /\ chan[s] # <<>>
    /\ chan' = [chan EXCEPT ![s] = IF ok THEN Tail(@) ELSE <<>>]
    /\ wire' = [wire EXCEPT ![s] = IF ok THEN Append(@, Head(chan[s])) ELSE @]
    /\ sendPc' = [sendPc EXCEPT ![s] = IF ok THEN "running" ELSE "failed"]
    /\ UNCHANGED <<state, events, inbox, file, connPc, elapsed, recvPc, received, ret,
                   sending, saving, closed>>

\* Mutant of SendFinish: the send task ends as soon as the sender handle is
\* cleared, with packets still queued.
SendFinish_OnClear(s) ==
    /\ sendPc[s] = "running"
    /\ state.sender # s
    /\ sendPc' = [sendPc EXCEPT ![s] = "done"]
    /\ UNCHANGED <<state, events, inbox, file, chan, wire, connPc, elapsed,
                   recvPc, received, ret, sending, saving, closed>>

\* rx.recv() returned None: every sender is dropped and the channel is empty.
SendFinish(s) ==
    /\ sendPc[s] = "running"
    /\ chan[s] = <<>>
    /\ state.sender # s
    /\ sendPc' = [sendPc EXCEPT ![s] = "done"]
    /\ UNCHANGED <<state, events, inbox, file, chan, wire, connPc, elapsed,
                   recvPc, received, ret, sending, saving, closed>>

(***************************************************************************)
(* The specifications.  Spec is the life of a session: connect with every  *)
(* outcome, the callers' sends, the recv and send tasks to their end.      *)
(* SpecControl and SpecParser connect successfully and then follow the     *)
(* control-command path with its subscribers, and the whole parser.        *)
(***************************************************************************)
\* Frames that change what a disconnection clears, and one that panics.
SessionFrames ==
    { Frame(<<CONTROL_COMMAND, 0, OwnsConnection, 1, 0, 0, 0>>),
      Frame(<<CONNECTED_DEVICES, 0, 1, 0, 0, 1, 2, 3, 4, 5, 171, 7, 8>>),
      Frame(<<EAR_DETECTION, 0, 0>>) }

Connected == [ok |-> TRUE, v |-> 64]

Connect(s) ==
    \/ ConnectStart(s)
    \/ \E ok \in BOOLEAN : SocketNew(s, ok)
    \/ \E outcome \in {"ok", "err", "timeout"} : SocketConnect(s, outcome)
    \/ \E outcome \in PeerAddrOutcomes, slept \in {POLL_INTERVAL, CONNECT_TIMEOUT} :
           PollCid(s, outcome, slept)
    \/ InstallSender(s)
    \/ SpawnTasks(s)

\* connect when the socket connects and the peer CID is there at the first poll.
ConnectOk(s) ==
    \/ ConnectStart(s)
    \/ SocketNew(s, TRUE)
    \/ SocketConnect(s, "ok")
    \/ PollCid(s, Connected, POLL_INTERVAL)
    \/ InstallSender(s)
    \/ SpawnTasks(s)

RecvThread(s) ==
    \/ \E packet \in SessionFrames : RecvPacket(s, packet, "ok")
    \/ RecvEof(s)
    \/ RecvError(s)
    \/ RecvExit(s)

SendThread(s) ==
    \/ \E ok \in BOOLEAN : SendWrite(s, ok)
    \/ SendFinish(s)

Next ==
    \/ \E s \in Sessions : Connect(s)
    \/ \E data \in OutboundPackets : SendPacket(data)
    \/ SetEventChannel
    \/ \E s \in Sessions : RecvThread(s)
    \/ \E s \in Sessions : SendThread(s)

Spec == Init /\ [][Next]_vars

NextControl ==
    \/ \E s \in Sessions : ConnectOk(s)
    \/ SetEventChannel
    \/ \E k \in Sinks, identifier \in SubscribedIdentifiers : Subscribe(k, identifier)
    \/ \E s \in Sessions, packet \in ControlFrames : RecvPacket(s, packet, "ok")

SpecControl == Init /\ [][NextControl]_vars

\* The end of a session: the callers' sends, the recv task reaching its end
\* and the send task.  The scheduler runs a spawned task that can take a
\* step, and a socket write returns, so the send task is weakly fair.
NextShutdown ==
    \/ \E s \in Sessions : ConnectOk(s)
    \/ \E data \in OutboundPackets : SendPacket(data)
    \/ \E s \in Sessions : RecvEof(s) \/ RecvError(s) \/ RecvExit(s)
    \/ \E s \in Sessions : SendThread(s)

SpecShutdown ==
    /\ Init
    /\ [][NextShutdown]_vars
    /\ \A s \in Sessions : WF_vars(RecvExit(s)) /\ WF_vars(SendThread(s))

\* Everything that touches the ownership flag and the control-command shadow:
\* control frames of every kind, subscriptions, sends, and both ways the recv
\* task ends.
NextOwnership ==
    \/ \E s \in Sessions : ConnectOk(s)
    \/ \E k \in Sinks, identifier \in SubscribedIdentifiers : Subscribe(k, identifier)
    \/ \E data \in OutboundPackets : SendPacket(data)
    \/ \E s \in Sessions, packet \in ControlFrames : RecvPacket(s, packet, "ok")
    \/ \E s \in Sessions : RecvEof(s) \/ RecvError(s) \/ RecvExit(s)
    \/ \E s \in Sessions : SendThread(s)

SpecOwnership == Init /\ [][NextOwnership]_vars

\* The battery path.  The frames: the two-entry frame of the protocol notes;
\* three entries with an unknown component in the middle; an unknown status
\* first; no entry; one entry and bytes after it; the same component twice;
\* a level byte above 100.
BatteryInputs ==
    { Frame(<<BATTERY_INFO, 0, 2, 4, 1, 50, 1, 0, 2, 1, 40, 2, 0>>),
      Frame(<<BATTERY_INFO, 0, 3, 2, 1, 7, 2, 0, 9, 1, 8, 1, 0, 8, 1, 100, 4, 0>>),
      Frame(<<BATTERY_INFO, 0, 2, 4, 1, 50, 3, 0, 8, 1, 0, 1, 0>>),
      Frame(<<BATTERY_INFO, 0, 0>>),
      Frame(<<BATTERY_INFO, 0, 1, 8, 1, 99, 2, 0, 4, 1>>),
      Frame(<<BATTERY_INFO, 0, 2, 4, 1, 10, 2, 0, 4, 1, 11, 2, 0>>),
      Frame(<<BATTERY_INFO, 0, 1, 4, 1, 200, 2, 0>>) }

NextBattery ==
    \/ \E s \in Sessions : ConnectOk(s)
    \/ SetEventChannel
    \/ \E s \in Sessions, packet \in BatteryInputs : RecvPacket(s, packet, "ok")

SpecBattery == Init /\ [][NextBattery]_vars

\* The audio-source path.  Each case is the six address bytes of a frame, its
\* kind byte, the bytes after it, and how the address reads and which kind
\* it is (0 None, 1 Call, 2 Media).
AudioCases ==
    { [addr |-> <<170, 187, 204, 221, 238, 255>>, kind_byte |-> 2, rest |-> <<>>,
       text |-> <<70, 70, 58, 69, 69, 58, 68, 68, 58, 67, 67, 58, 66, 66, 58, 65, 65>>, kind |-> 2],   \* "FF:EE:DD:CC:BB:AA"
      [addr |-> <<1, 10, 0, 159, 176, 124>>, kind_byte |-> 1, rest |-> <<>>,
       text |-> <<55, 67, 58, 66, 48, 58, 57, 70, 58, 48, 48, 58, 48, 65, 58, 48, 49>>, kind |-> 1],   \* "7C:B0:9F:00:0A:01"
      [addr |-> <<170, 187, 204, 221, 238, 255>>, kind_byte |-> 0, rest |-> <<>>,
       text |-> <<70, 70, 58, 69, 69, 58, 68, 68, 58, 67, 67, 58, 66, 66, 58, 65, 65>>, kind |-> 0],
      [addr |-> <<1, 10, 0, 159, 176, 124>>, kind_byte |-> 7, rest |-> <<9>>,
       text |-> <<55, 67, 58, 66, 48, 58, 57, 70, 58, 48, 48, 58, 48, 65, 58, 48, 49>>, kind |-> 0] }

AudioFrameOf(c) == Frame(<<AUDIO_SOURCE, 0>> \o c.addr \o <<c.kind_byte>> \o c.rest)

\* The frames of the cases and one whose payload has 8 bytes.
AudioInputs ==
    { AudioFrameOf(c) : c \in AudioCases }
        \cup { Frame(<<AUDIO_SOURCE, 0, 1, 2, 3, 4, 5, 6>>) }

NextAudio ==
    \/ \E s \in Sessions : ConnectOk(s)
    \/ SetEventChannel
    \/ \E s \in Sessions, packet \in AudioInputs : RecvPacket(s, packet, "ok")

SpecAudio == Init /\ [][NextAudio]_vars

\* A session whose socket accepts every write: the callers' sends, the recv
\* task ending by peer close or by read error, and the send task.  Only the
\* send task is fair, and connect, which spawns it, runs to its end; the recv
\* task may end at any time or never.
SendTaskOk(s) ==
    \/ SendWrite(s, TRUE)
    \/ SendFinish(s)

NextDrain ==
    \/ \E s \in Sessions : ConnectOk(s)
    \/ \E data \in OutboundPackets : SendPacket(data)
    \/ \E s \in Sessions : RecvEof(s) \/ RecvError(s) \/ RecvExit(s)
    \/ \E s \in Sessions : SendTaskOk(s)

SpecDrain ==
    /\ Init
    /\ [][NextDrain]_vars
    /\ \A s \in Sessions : WF_vars(ConnectOk(s)) /\ WF_vars(SendTaskOk(s))

\* Sessions that overlap: connect is called again while the recv task of the
\* session before is alive, and each recv task ends when its own socket closes
\* or fails.
NextReconnect ==
    \/ \E s \in Connections : ConnectOk(s) \/ ConnectAgain(s)
    \/ \E data \in OutboundPackets : SendPacket(data)
    \/ \E s \in Connections : RecvEof(s) \/ RecvError(s) \/ RecvExit(s)
    \/ \E s \in Connections : SendThread(s)

SpecReconnect == Init /\ [][NextReconnect]_vars

\* connect with every outcome of its steps, beside callers that send and the
\* send task.  The call is weakly fair: socket.connect is under a timeout,
\* peer_addr() returns, and sleep(POLL_INTERVAL) ends.
NextConnect ==
    \/ \E s \in Sessions : Connect(s)
    \/ \E data \in OutboundPackets : SendPacket(data)
    \/ \E s \in Sessions, ok \in BOOLEAN : SendWrite(s, ok)

SpecConnect ==
    /\ Init
    /\ [][NextConnect]_vars
    /\ \A s \in Sessions : WF_vars(Connect(s))

\* The control-command path with value_bytes of every trimmed length, 1 to 4.
DeliveryQuads == { <<0, 0, 0, 0>>, <<0, 2, 0, 0>>, <<5, 0, 6, 0>>, <<0, 0, 0, 7>> }

DeliveryFrames ==
    { Frame(<<CONTROL_COMMAND, 0, id>> \o vb) :
          id \in SubscribedIdentifiers, vb \in DeliveryQuads }

NextDelivery ==
    \/ \E s \in Sessions : ConnectOk(s)
    \/ SetEventChannel
    \/ \E k \in Sinks, identifier \in SubscribedIdentifiers : Subscribe(k, identifier)
    \/ \E s \in Sessions, packet \in DeliveryFrames : RecvPacket(s, packet, "ok")

SpecDelivery == Init /\ [][NextDelivery]_vars

\* The control-command path with subscribers that go away.
NextClosing ==
    \/ NextControl
    \/ \E k \in Sinks : CloseSink(k)

SpecClosing == Init /\ [][NextClosing]_vars

NextParser ==
    \/ \E s \in Sessions : ConnectOk(s)
    \/ SetEventChannel
    \/ \E s \in Sessions, packet \in Frames, fs \in FsOutcomes : RecvPacket(s, packet, fs)

SpecParser == Init /\ [][NextParser]_vars

(***************************************************************************)
(* receive_packet entered by several callers, for the frames that save the *)
(* device records.  The arm holds the state lock from the mutation to the  *)
(* end of the file write, which is two steps here: the caller is suspended *)
(* in create_dir_all / fs::write between them.                             *)
(***************************************************************************)
PersistFrames == InformationFrames \cup KeysFrames

\* Caller c parses the frame, takes the lock, changes the records and
\* serialises them: let json = serde_json::to_string(&state.devices).
ReceiveLock(c, packet) ==
    /\ LockFree
    /\ saving[c] = None
    /\ LET r == receive_packet(state, packet)
       IN  /\ r.persist
           /\ state' = r.state
           /\ events' = events \o r.emit
           /\ inbox' = FanOut(inbox, state.control_command_subscribers, r.deliver)
           /\ saving' = [saving EXCEPT ![c] = Some(r.state.devices)]
    /\ UNCHANGED <<file, chan, wire, connPc, elapsed, recvPc, sendPc, received,
                   ret, sending, closed>>

\* create_dir_all and fs::write end with the outcome fs; the arm returns and
\* the lock is released.
ReceiveSave(c, fs) ==
    /\ saving[c] # None
    /\ file' = Persist(file, saving[c][1], TRUE, fs)
    /\ saving' = [saving EXCEPT ![c] = None]
    /\ UNCHANGED <<state, events, inbox, chan, wire, connPc, elapsed, recvPc,
                   sendPc, received, ret, sending, closed>>

NextPersist ==
    \/ \E s \in Sessions : ConnectOk(s)
    \/ \E c \in Callers, packet \in PersistFrames : ReceiveLock(c, packet)
    \/ \E c \in Callers, fs \in FsOutcomes : ReceiveSave(c, fs)

SpecPersist == Init /\ [][NextPersist]_vars

\* The outbound queue filled to its capacity and beyond with one packet.
QueueBudget == CHANNEL_CAPACITY + MaxSends

NextQueue ==
    \/ \E s \in Sessions : ConnectOk(s)
    \/ send_packet(Handshake, QueueBudget)
    \/ SendResume
    \/ \E s \in Sessions, ok \in BOOLEAN : SendWrite(s, ok)

SpecQueue == Init /\ [][NextQueue]_vars

\* Callers that fill the outbound queue beside a recv task that takes frames:
\* a control command that sets the ownership flag, and an audio-source frame.
ContentionFrames ==
    { Frame(<<CONTROL_COMMAND, 0, OwnsConnection, 1, 0, 0, 0>>),
      Frame(<<AUDIO_SOURCE, 0, 1, 10, 0, 159, 176, 124, 2>>) }

NextContention ==
    \/ \E s \in Sessions : ConnectOk(s)
    \/ send_packet(Handshake, QueueBudget)
    \/ SendResume
    \/ \E s \in Sessions : SendWrite(s, TRUE)
    \/ \E s \in Sessions, packet \in ContentionFrames : RecvPacket(s, packet, "ok")

SpecContention == Init /\ [][NextContention]_vars

\* A Ready session whose socket accepts writes and reads: callers that fill the
\* outbound queue, beside the recv task taking control frames and the send
\* task.  The write side of the socket is busy
\* while the callers enqueue: the first write completes when the queue has
\* filled, and from then on every write completes.  The send task and a
\* completed channel send are run when they can step; the state mutex hands
\* the lock to its waiters in the order of their requests, so the recv task,
\* waiting for it, gets it when it is free again and again.
ProgressFrame == Frame(<<CONTROL_COMMAND, 0, OwnsConnection, 1, 0, 0, 0>>)

SendWriteLate(s) ==
    /\ wire[s] = <<>> => Len(chan[s]) = CHANNEL_CAPACITY
    /\ SendWrite(s, TRUE)

NextProgress ==
    \/ \E s \in Sessions : ConnectOk(s)
    \/ send_packet(Handshake, QueueBudget)
    \/ SendResume
    \/ \E s \in Sessions : SendWriteLate(s)
    \/ \E s \in Sessions : RecvPacket(s, ProgressFrame, "ok")

SpecProgress ==
    /\ Init
    /\ [][NextProgress]_vars
    /\ WF_vars(SendResume)
    /\ \A s \in Sessions :
           /\ WF_vars(ConnectOk(s))
           /\ WF_vars(SendWriteLate(s))
           /\ SF_vars(RecvPacket(s, ProgressFrame, "ok"))

(***************************************************************************)
(* The encoders called after a connect: every public send_* function hands *)
(* its packet to send_packet, and the send task writes it to the socket.   *)
(***************************************************************************)
\* MAC arguments of the SmartRouting calls: the text handed in and the six
\* bytes it spells.
MacArgs ==
    { [addr |-> PeerAddr, text |-> PeerMac],
      [addr |-> <<0, 26, 125, 218, 113, 19>>,
       text |-> <<48, 48, 58, 49, 97, 58, 55, 100, 58, 100, 97, 58, 55, 49, 58, 49, 51>>] }   \* "00:1a:7d:da:71:13"

\* A target argument that is no MAC: "AA:BB:CC:DD:EE:GG"
BadMac == <<65, 65, 58, 66, 66, 58, 67, 67, 58, 68, 68, 58, 69, 69, 58, 71, 71>>

TargetArgs == {m.text : m \in MacArgs} \cup {BadMac}
SelfArgs == {m.text : m \in MacArgs}

\* key_types: Vec<ProximityKeyType>
KeyTypeArgs ==
    { <<>>, <<Irk>>, <<EncKey>>, <<Irk, EncKey>>, <<EncKey, Irk>>, <<Irk, Irk>> }

\* name: &str; the last is 256 bytes long.
NameArgs == { <<>>, <<80, 111, 100, 115>>, [i \in 1..256 |-> 65] }

\* unwrap() on a piece that is no hex byte: the call panics before it
\* reaches send_data_packet.
CallerPanics ==
    /\ ret' = "panicked"
    /\ UNCHANGED <<state, events, inbox, file, chan, wire, connPc, elapsed,
                   recvPc, sendPc, received, sending, saving, closed>>

SendHandshake == send_packet(Handshake, MaxSends)

SendNotificationRequest == send_packet(NotificationRequest, MaxSends)

SendSetFeatureFlagsPacket == send_packet(SetFeatureFlagsPacket, MaxSends)

SendProximityKeysRequest(key_types) ==
    send_packet(ProximityKeysRequest(key_types), MaxSends)

SendRenamePacket(name) == send_packet(RenamePacket(name), MaxSends)

SendSomePacket == send_packet(SomePacket, MaxSends)

SendMediaInformationNewDevice(self_mac_address, target_mac_address) ==
    LET target_mac_bytes == ParseMacBytes(target_mac_address)
    IN  IF target_mac_bytes = None THEN CallerPanics
        ELSE send_packet(SmartRoutingPacket(
                 media_information_new_device(self_mac_address, target_mac_bytes[1])),
                 MaxSends)

SendHijackRequest(target_mac_address) ==
    LET target_mac_bytes == ParseMacBytes(target_mac_address)
    IN  IF target_mac_bytes = None THEN CallerPanics
        ELSE send_packet(SmartRoutingPacket(hijack_request(target_mac_bytes[1])),
                         MaxSends)

SendMediaInformation(self_mac_address, target_mac_address, streaming_state) ==
    LET target_mac_bytes == ParseMacBytes(target_mac_address)
    IN  IF target_mac_bytes = None THEN CallerPanics
        ELSE send_packet(SmartRoutingPacket(
                 media_information(self_mac_address, target_mac_bytes[1],
                                   streaming_state)),
                 MaxSends)

SendSmartRoutingShowUi(target_mac_address) ==
    LET target_mac_bytes == ParseMacBytes(target_mac_address)
    IN  IF target_mac_bytes = None THEN CallerPanics
        ELSE send_packet(SmartRoutingPacket(smart_routing_show_ui(target_mac_bytes[1])),
                         MaxSends)

SendHijackReversed(target_mac_address) ==
    LET target_mac_bytes == ParseMacBytes(target_mac_address)
    IN  IF target_mac_bytes = None THEN CallerPanics
        ELSE send_packet(SmartRoutingPacket(hijack_reversed(target_mac_bytes[1])),
                         MaxSends)

SendAddTipiDevice(self_mac_address, target_mac_address) ==
    LET target_mac_bytes == ParseMacBytes(target_mac_address)
    IN  IF target_mac_bytes = None THEN CallerPanics
        ELSE send_packet(SmartRoutingPacket(
                 add_tipi_device(self_mac_address, target_mac_bytes[1])),
                 MaxSends)

NextEncoders ==
    \/ \E s \in Sessions : ConnectOk(s)
    \/ SendHandshake
    \/ SendNotificationRequest
    \/ SendSetFeatureFlagsPacket
    \/ \E key_types \in KeyTypeArgs : SendProximityKeysRequest(key_types)
    \/ \E name \in NameArgs : SendRenamePacket(name)
    \/ SendSomePacket
    \/ \E self \in SelfArgs, target \in TargetArgs :
           SendMediaInformationNewDevice(self, target)
    \/ \E target \in TargetArgs : SendHijackRequest(target)
    \/ \E self \in SelfArgs, target \in TargetArgs, streaming_state \in BOOLEAN :
           SendMediaInformation(self, target, streaming_state)
    \/ \E target \in TargetArgs : SendSmartRoutingShowUi(target)
    \/ \E target \in TargetArgs : SendHijackReversed(target)
    \/ \E self \in SelfArgs, target \in TargetArgs : SendAddTipiDevice(self, target)
    \/ \E s \in Sessions, ok \in BOOLEAN : SendWrite(s, ok)

SpecEncoders == Init /\ [][NextEncoders]_vars

(***************************************************************************)
(* What the properties below read from a frame and from the shadow.        *)
(***************************************************************************)
\* The frame is a ControlCommand frame the parser accepts.
AcceptedControlFrame(packet) ==
    /\ starts_with(packet, HEADER_BYTES)
    /\ Len(packet) >= 11
    /\ At(packet, 4) = CONTROL_COMMAND
    /\ At(packet, 6) \in ControlCommandIdentifiers

FrameIdentifier(packet) == At(packet, 6)
FrameValueBytes(packet) == <<At(packet, 7), At(packet, 8), At(packet, 9), At(packet, 10)>>

\* v is value_bytes cut after its last non-zero byte, <<0>> when all are zero.
CutAfterLastNonZero(v, value_bytes) ==
    /\ Len(v) \in 1..4
    /\ \A i \in 1..Len(v) : v[i] = value_bytes[i]
    /\ \A i \in (Len(v) + 1)..4 : value_bytes[i] = 0
    /\ v[Len(v)] # 0 \/ (Len(v) = 1 /\ value_bytes[1] = 0)

EntriesOf(st, identifier) ==
    { i \in 1..Len(st.control_command_status_list) :
          st.control_command_status_list[i].identifier = identifier }

OneEntryPerIdentifier(st) ==
    \A identifier \in ControlCommandIdentifiers :
        Cardinality(EntriesOf(st, identifier)) <= 1

\* The sinks subscribed to the identifier, and the events of a given tag.
SubscribersOf(st, identifier) ==
    { st.control_command_subscribers[identifier][j] :
          j \in 1..Len(st.control_command_subscribers[identifier]) }

\* The shadow of st holds the value the event e carries.
EventInShadow(e, st) ==
    CASE e.tag = "BatteryInfo" -> st.battery_info = e.list
      [] e.tag = "ControlCommand" ->
             \E i \in EntriesOf(st, e.status.identifier) :
                 st.control_command_status_list[i].value = e.status.value
      [] e.tag = "EarDetection" ->
             /\ st.ear_detection_status = e.new
             /\ st.old_ear_detection_status = e.old
      [] e.tag = "ConversationalAwareness" ->
             st.conversational_awareness_status = e.awareness
      [] e.tag = "AudioSource" -> st.audio_source = Some(e.source)
      [] e.tag = "ConnectedDevices" ->
             /\ st.connected_devices = e.new_devices
             /\ st.old_connected_devices = e.old_devices
      [] OTHER -> TRUE

(***************************************************************************)
(* C1.  After any sequence of received ControlCommand frames the shadow    *)
(* holds at most one entry per identifier, and right after an accepted     *)
(* frame the entry of its identifier has the frame's four value bytes cut  *)
(* after their last non-zero byte (<<0>> when all four are zero).          *)
(***************************************************************************)
C1_ShadowOneEntryTrimmed ==
    /\ [](OneEntryPerIdentifier(state))
    /\ [][\A s \in Sessions, packet \in ControlFrames :
              (RecvPacket(s, packet, "ok") /\ AcceptedControlFrame(packet)) =>
                  \E i \in 1..Len(state'.control_command_status_list) :
                      /\ EntriesOf(state', FrameIdentifier(packet)) = {i}
                      /\ CutAfterLastNonZero(state'.control_command_status_list[i].value,
                                             FrameValueBytes(packet))]_vars

\* Two frames for OwnsConnection were processed (a subscriber saw both
\* values) and the shadow holds the one entry, with the second value trimmed.
C1_Witness ==
    /\ \E k \in Sinks : inbox[k] = << <<1>>, <<0, 2>> >>
    /\ state.control_command_status_list =
           << [identifier |-> OwnsConnection, value |-> <<0, 2>>] >>

(***************************************************************************)
(* C2.  A ControlCommand frame with identifier 0x06 whose first value byte *)
(* is v sets the ownership flag to (v # 0): value bytes 01 00 00 00 set it *)
(* and value bytes 00 00 00 00 clear it, leaving the shadow value <<0>>.   *)
(***************************************************************************)
C2_OwnershipFollowsFirstByte ==
    [][\A s \in Sessions, packet \in ControlFrames :
          (RecvPacket(s, packet, "ok") /\ FrameIdentifier(packet) = OwnsConnection) =>
              /\ state'.owns = (At(packet, 7) # 0)
              /\ FrameValueBytes(packet) = <<1, 0, 0, 0>> => state'.owns
              /\ FrameValueBytes(packet) = <<0, 0, 0, 0>> =>
                     /\ ~state'.owns
                     /\ \E i \in EntriesOf(state', OwnsConnection) :
                            state'.control_command_status_list[i].value = <<0>>]_vars

\* 01 00 00 00 and then 00 00 00 00 were processed for OwnsConnection.
C2_Witness ==
    /\ Len(events) = 2
    /\ events[1] = [tag |-> "ControlCommand",
                    status |-> [identifier |-> OwnsConnection, value |-> <<1>>]]
    /\ events[2] = [tag |-> "ControlCommand",
                    status |-> [identifier |-> OwnsConnection, value |-> <<0>>]]
    /\ ~state.owns

(***************************************************************************)
(* C3.  When the recv task ends after a socket read error, the shared      *)
(* state it leaves has the ownership flag false, the connected-devices     *)
(* list empty and the control-command shadow empty, whatever frames were   *)
(* processed before.                                                       *)
(***************************************************************************)
C3_ErrorExitLeavesCleared ==
    [][\A s \in Sessions :
          (RecvExit(s) /\ recvPc[s] = "err") =>
              /\ state'.owns = FALSE
              /\ state'.connected_devices = <<>>
              /\ state'.control_command_status_list = <<>>]_vars

\* The recv task set the ownership flag and filled the connected-devices list
\* (both events went out), then ended on a read error.
C3_Witness ==
    /\ recvPc[1] = "done_err"
    /\ \E i, j \in 1..Len(events) :
           /\ events[i].tag = "ControlCommand"
           /\ events[i].status = [identifier |-> OwnsConnection, value |-> <<1>>]
           /\ events[j].tag = "ConnectedDevices"
           /\ events[j].new_devices # <<>>
    /\ ~state.owns
    /\ state.connected_devices = <<>>
    /\ state.control_command_status_list = <<>>

(***************************************************************************)
(* C4.  Once the recv task of a session has ended, by a read of 0 bytes or *)
(* by a read error, the shared state no longer holds that session's sender *)
(* handle, and holds none at all unless a later connect installed its own. *)
(***************************************************************************)
C4_SenderClearedAfterRecvEnds ==
    \A s \in Sessions :
        recvPc[s] \in {"done_eof", "done_err"} =>
            /\ state.sender # s
            /\ (\A t \in Sessions : t > s => connPc[t] \notin {"sender_set", "ready"}) =>
                   state.sender = 0

\* A packet went out through the installed sender, then the peer closed and
\* the recv task ended.
C4_Witness ==
    /\ recvPc[1] = "done_eof"
    /\ Len(wire[1]) >= 1
    /\ state.sender = 0

(***************************************************************************)
(* C5.  After the recv task has ended for any disconnection cause, a read  *)
(* of 0 bytes as well as a read error, the ownership flag is false.        *)
(***************************************************************************)
C5_OwnsClearedOnAnyDisconnect ==
    [][\A s \in Sessions : RecvExit(s) => state'.owns = FALSE]_vars

(***************************************************************************)
(* C6.  A sink registered with subscribe(identifier, sink) receives the    *)
(* value the shadow holds for the identifier, if it holds one, exactly     *)
(* once at subscribe time, and then the value of every later accepted      *)
(* ControlCommand frame for that identifier exactly once and in frame      *)
(* order; a subscribe and a frame for the same identifier in either order  *)
(* lose nothing and deliver nothing twice, and nothing else reaches a sink.*)
(***************************************************************************)
C6_SubscriberSeesEachValueOnce ==
    [][/\ \A k \in Sinks, identifier \in SubscribedIdentifiers :
              Subscribe(k, identifier) =>
                  /\ \A j \in Sinks \ {k} : inbox'[j] = inbox[j]
                  /\ IF EntriesOf(state, identifier) = {}
                     THEN inbox'[k] = inbox[k]
                     ELSE \E i \in EntriesOf(state, identifier) :
                              inbox'[k] = Append(inbox[k],
                                                 state.control_command_status_list[i].value)
       /\ \A s \in Sessions, packet \in ControlFrames :
              RecvPacket(s, packet, "ok") =>
                  \A k \in Sinks :
                      IF /\ AcceptedControlFrame(packet)
                         /\ k \in SubscribersOf(state, FrameIdentifier(packet))
                      THEN /\ Len(inbox'[k]) = Len(inbox[k]) + 1
                           /\ SubSeq(inbox'[k], 1, Len(inbox[k])) = inbox[k]
                           /\ CutAfterLastNonZero(inbox'[k][Len(inbox'[k])],
                                                  FrameValueBytes(packet))
                      ELSE inbox'[k] = inbox[k]
       /\ (SetEventChannel \/ \E s \in Sessions : ConnectOk(s)) => inbox' = inbox]_vars

\* Three frames for OwnsConnection were processed; one sink subscribed before
\* the first and saw all three values, the other subscribed after the second
\* and saw the second value once, at subscribe time, and then the third.
C6_Witness ==
    /\ received[1] = 3
    /\ Len(events) = 3
    /\ \A i \in 1..3 : /\ events[i].tag = "ControlCommand"
                       /\ events[i].status.identifier = OwnsConnection
    /\ events[1].status.value # events[2].status.value
    /\ \E j, k \in Sinks :
           /\ inbox[j] = <<events[1].status.value, events[2].status.value,
                           events[3].status.value>>
           /\ inbox[k] = <<events[2].status.value, events[3].status.value>>
           /\ state.control_command_subscribers[OwnsConnection] = <<j, k>>

(***************************************************************************)
(* C7.  When a BatteryInfo, ControlCommand, EarDetection,                  *)
(* ConversationalAwareness, AudioSource or ConnectedDevices event is put   *)
(* on the general event sink, the shared state left by the critical        *)
(* section that sent it already holds the value the event carries.         *)
(***************************************************************************)
C7_EventAfterShadow ==
    [][/\ Len(events') >= Len(events)
       /\ SubSeq(events', 1, Len(events)) = events
       /\ \A i \in (Len(events) + 1)..Len(events') :
              EventInShadow(events'[i], state')]_vars

\* A battery, an ear-detection and a connected-devices event are on the sink
\* and the three shadows hold what they carry.
C7_Witness ==
    \E i, j, k \in 1..Len(events) :
        /\ events[i].tag = "BatteryInfo"
        /\ events[i].list # <<>>
        /\ state.battery_info = events[i].list
        /\ events[j].tag = "EarDetection"
        /\ state.ear_detection_status = events[j].new
        /\ events[k].tag = "ConnectedDevices"
        /\ events[k].new_devices # <<>>
        /\ state.connected_devices = events[k].new_devices

(***************************************************************************)
(* C8.  A send made while the shared state holds no sender handle returns  *)
(* a not-connected error to the caller, puts nothing on the outbound queue *)
(* and leaves the shared state unchanged.                                  *)
(***************************************************************************)
C8_SendWithoutSenderFails ==
    [][\A data \in OutboundPackets :
          (SendPacket(data) /\ state.sender = 0) =>
              /\ ret' = "NotConnected: L2CAP stream not connected"
              /\ chan' = chan
              /\ wire' = wire
              /\ state' = state]_vars

\* A send went through while the session was up, the recv task ended, and the
\* next send was refused.
C8_Witness ==
    /\ ret = "NotConnected: L2CAP stream not connected"
    /\ recvPc[1] \in {"done_eof", "done_err"}
    /\ Len(wire[1]) >= 1
    /\ chan[1] = <<>>

(***************************************************************************)
(* C9.  A connect that fails at any step (socket creation, connect error,  *)
(* connect timeout, ENOTCONN in the CID wait, expiry of the CID wait) has  *)
(* spawned no recv task and no send task and installed no sender handle,   *)
(* and the target address it recorded at its start stays recorded.         *)
(***************************************************************************)
C9_FailedConnectSpawnsNothing ==
    \A s \in Sessions :
        connPc[s] \in FailedPcs =>
            /\ recvPc[s] = "unspawned"
            /\ sendPc[s] = "unspawned"
            /\ state.sender # s
            /\ chan[s] = <<>>
            /\ state.airpods_mac = Some(PeerAddr)

\* The CID wait ran out after the socket had connected, and a send was
\* refused afterwards.
C9_Witness ==
    /\ connPc[1] = "ret_cid_timeout"
    /\ elapsed[1] = CONNECT_TIMEOUT
    /\ ret = "NotConnected: L2CAP stream not connected"

(***************************************************************************)
(* C10.  Every inbound frame that is malformed or too short for the parser *)
(* of its opcode is discarded: the shared state is unchanged, no event is  *)
(* emitted, and the recv task keeps running.                               *)
(***************************************************************************)
C10_MalformedFrameDiscarded ==
    [][\A s \in Sessions, packet \in MalformedFrames, fs \in FsOutcomes :
          RecvPacket(s, packet, fs) =>
              /\ state' = state
              /\ events' = events
              /\ inbox' = inbox
              /\ file' = file
              /\ recvPc'[s] = "running"]_vars

(***************************************************************************)
(* Frames the ear-detection and connected-devices parsers run through.     *)
(***************************************************************************)
AcceptedEarFrame(packet) ==
    /\ starts_with(packet, HEADER_BYTES)
    /\ Len(packet) >= 8
    /\ At(packet, 4) = EAR_DETECTION

\* A ConnectedDevices frame long enough for every byte its entries read.
CompleteConnectedFrame(packet) ==
    /\ starts_with(packet, HEADER_BYTES)
    /\ Len(packet) >= 7
    /\ At(packet, 4) = CONNECTED_DEVICES
    /\ Len(packet) - 4 >= 3 + 8 * At(packet, 6)
    /\ At(packet, 6) > 0 => Len(packet) - 4 >= 5 + 8 * At(packet, 6)

\* events' is events with e put on the sink, if the sink is set.
Emitted(e) == events' = IF state.event_tx THEN Append(events, e) ELSE events

(***************************************************************************)
(* C11.  For the ear-detection and the connected-devices shadow, each      *)
(* accepted packet sets previous to the value current had just before it   *)
(* and current to the packet's value, and the event carries exactly this   *)
(* (previous, current) pair.                                               *)
(***************************************************************************)
C11_PreviousIsPriorCurrent ==
    [][\A s \in Sessions, packet \in EarFrames \cup ConnectedFrames :
          RecvPacket(s, packet, "ok") =>
              /\ AcceptedEarFrame(packet) =>
                     /\ state'.old_ear_detection_status = state.ear_detection_status
                     /\ state'.ear_detection_status =
                            <<EarDetectionStatus_of(At(packet, 6)),
                              EarDetectionStatus_of(At(packet, 7))>>
                     /\ Emitted([tag |-> "EarDetection",
                                 old |-> state.ear_detection_status,
                                 new |-> state'.ear_detection_status])
              /\ CompleteConnectedFrame(packet) =>
                     /\ state'.old_connected_devices = state.connected_devices
                     /\ Len(state'.connected_devices) = At(packet, 6)
                     /\ \A i \in 1..At(packet, 6) :
                            state'.connected_devices[i] =
                                ConnectedDevice(SliceFrom(packet, 4), i - 1)
                     /\ Emitted([tag |-> "ConnectedDevices",
                                 old_devices |-> state.connected_devices,
                                 new_devices |-> state'.connected_devices])]_vars

\* From empty, [InEar, OutOfEar] and then [InCase, InCase] were received.
C11_Witness ==
    /\ state.old_ear_detection_status = <<0, 1>>
    /\ state.ear_detection_status = <<2, 2>>
    /\ Len(events) = 2
    /\ events[1] = [tag |-> "EarDetection", old |-> <<>>, new |-> <<0, 1>>]
    /\ events[2] = [tag |-> "EarDetection", old |-> <<0, 1>>, new |-> <<2, 2>>]

(***************************************************************************)
(* C12.  A ConnectedDevices frame with count N = payload[2] and a payload  *)
(* of at least 3 + 8 * N bytes is accepted and yields exactly N records,   *)
(* record i with the MAC of payload[5+8i .. 5+8i+6] in forward order       *)
(* (upper-case, colon-separated), info1 = payload[5+8i+6] and              *)
(* info2 = payload[5+8i+7]; a shorter payload is discarded with no state   *)
(* change.                                                                 *)
(***************************************************************************)
ConnectedDevicesInputs ==
    { p \in Frames : /\ starts_with(p, HEADER_BYTES)
                     /\ Len(p) >= 7
                     /\ At(p, 4) = CONNECTED_DEVICES }

C12_ConnectedDevicesBySize ==
    [][\A s \in Sessions, packet \in ConnectedDevicesInputs :
          RecvPacket(s, packet, "ok") =>
              LET payload == SliceFrom(packet, 4)
                  N == At(payload, 2)
              IN  IF Len(payload) >= 3 + 8 * N
                  THEN /\ recvPc'[s] = "running"
                       /\ Len(state'.connected_devices) = N
                       /\ \A i \in 0..(N - 1) :
                              LET d == state'.connected_devices[i + 1]
                                  b == 5 + 8 * i
                              IN  /\ d.mac = FormatMac(Slice(payload, b, b + 6))
                                  /\ d.info1 = At(payload, b + 6)
                                  /\ d.info2 = At(payload, b + 7)
                  ELSE /\ state' = state
                       /\ events' = events
                       /\ recvPc'[s] = "running"]_vars

PeerKeys(st) ==
    IF /\ PeerMac \in DOMAIN st.devices
       /\ st.devices[PeerMac].information # None
       /\ st.devices[PeerMac].information[1].kind = "AirPods"
    THEN Some(st.devices[PeerMac].information[1].info.le_keys)
    ELSE None

(***************************************************************************)
(* C14.  Processing an Information packet for the current peer MAC         *)
(* preserves the le_keys (irk, enc_key) already stored in that device's    *)
(* record.                                                                 *)
(***************************************************************************)
C14_InformationKeepsKeys ==
    [][\A s \in Sessions, packet \in InformationFrames, fs \in FsOutcomes :
          (RecvPacket(s, packet, fs) /\ PeerKeys(state) # None) =>
              PeerKeys(state') = PeerKeys(state)]_vars

(***************************************************************************)
(* C15.  For any initial device-record store (one with no record for the   *)
(* peer MAC included), a ProximityKeysResponse carrying key_type 0x01 with *)
(* 16 data bytes sets le_keys.irk of the peer's record to the lower-case   *)
(* hex of the data, and a response carrying key_type 0x04 with 16 bytes    *)
(* sets le_keys.enc_key and leaves irk as it was.                          *)
(***************************************************************************)
C15_KeysStoredForAnyStore ==
    [][\A s \in Sessions, packet \in KeysFrames, fs \in FsOutcomes :
          RecvPacket(s, packet, fs) =>
              LET key_type == At(packet, 7)
                  key_data == Slice(packet, 11, 27)
              IN  /\ PeerKeys(state') # None
                  /\ key_type = 1 => PeerKeys(state')[1].irk = hex_encode(key_data)
                  /\ key_type = 4 =>
                         /\ PeerKeys(state')[1].enc_key = hex_encode(key_data)
                         /\ PeerKeys(state) # None =>
                                PeerKeys(state')[1].irk = PeerKeys(state)[1].irk]_vars

(***************************************************************************)
(* The loop-back specification: a caller sends control commands, the send  *)
(* task writes them to the socket, and the peer hands each packet back, so *)
(* that receive_packet parses what send_control_command built.             *)
(***************************************************************************)
\* The values handed to send_control_command: 1 to 4 bytes.
CommandValues ==
    { <<0>>, <<1>>, <<255>>, <<0, 2>>, <<3, 0>>, <<0, 0, 4>>, <<5, 0, 6>>,
      <<0, 0, 0, 0>>, <<0, 0, 0, 7>>, <<255, 255, 255, 255>> }

\* send_control_command(identifier, value)
SendControlCommand(identifier, value) ==
    send_packet(ControlCommandPacket(identifier, value), MaxEchoes)

\* The peer returns the next packet it was sent; recv_thread parses it.
EchoPacket(s) ==
    /\ received[s] < Len(wire[s])
    /\ RecvPacket(s, wire[s][received[s] + 1], "ok")

NextEcho ==
    \/ \E s \in Sessions : ConnectOk(s)
    \/ SetEventChannel
    \/ \E identifier \in ControlCommandIdentifiers, value \in CommandValues :
           SendControlCommand(identifier, value)
    \/ \E s \in Sessions : SendWrite(s, TRUE)
    \/ \E s \in Sessions : EchoPacket(s)

SpecEcho == Init /\ [][NextEcho]_vars

\* value padded with zero bytes to four bytes.
PadToFour(value) == [i \in 1..4 |-> IF i <= Len(value) THEN value[i] ELSE 0]

(***************************************************************************)
(* C16.  Round trip of control commands: for every identifier of the enum  *)
(* and every value of 1 to 4 bytes, the frame send_control_command builds  *)
(* is the header, opcode 0x09, 0x00, the identifier and the value padded   *)
(* to four bytes; handed to receive_packet it is accepted and the shadow   *)
(* holds that identifier with the four bytes cut after the last non-zero   *)
(* one.                                                                    *)
(***************************************************************************)
C16_ControlCommandRoundTrip ==
    /\ [][chan' # chan =>
              \A identifier \in ControlCommandIdentifiers, value \in CommandValues :
                  (SendControlCommand(identifier, value) /\ ret' = "Ok") =>
                      chan'[state.sender] =
                          Append(chan[state.sender],
                                 <<4, 0, 4, 0, 9, 0, identifier>>
                                     \o PadToFour(value))]_vars
    /\ [](\A s \in Sessions :
              received[s] >= 1 =>
                  LET packet == wire[s][received[s]]
                  IN  /\ recvPc[s] = "running"
                      /\ \E i \in 1..Len(state.control_command_status_list) :
                             /\ EntriesOf(state, FrameIdentifier(packet)) = {i}
                             /\ CutAfterLastNonZero(
                                    state.control_command_status_list[i].value,
                                    FrameValueBytes(packet))
                      /\ events # <<>> =>
                             /\ events[Len(events)].tag = "ControlCommand"
                             /\ events[Len(events)].status.identifier =
                                    FrameIdentifier(packet))

\* StemConfig with value 05 00 06 went out as 04 00 04 00 09 00 39 05 00 06 00
\* and came back: the shadow holds StemConfig with value 05 00 06, and the
\* event went out.
C16_Witness ==
    /\ wire[1] = << <<4, 0, 4, 0, 9, 0, 57, 5, 0, 6, 0>> >>
    /\ received[1] = 1
    /\ state.control_command_status_list =
           << [identifier |-> StemConfig, value |-> <<5, 0, 6>>] >>
    /\ events = << [tag |-> "ControlCommand",
                    status |-> [identifier |-> StemConfig, value |-> <<5, 0, 6>>]] >>

(***************************************************************************)
(* C17.  If the channel of one subscriber of an identifier is closed, a    *)
(* ControlCommand frame for that identifier still updates the shadow,      *)
(* still delivers its value to every other subscriber of the identifier    *)
(* and still puts the ControlCommand event on the general sink; the closed *)
(* channel gets nothing, raises no error and stops nothing.                *)
(***************************************************************************)
C17_ClosedSubscriberIgnored ==
    [][\A s \in Sessions, packet \in ControlFrames :
          (/\ RecvPacket(s, packet, "ok")
           /\ AcceptedControlFrame(packet)
           /\ SubscribersOf(state, FrameIdentifier(packet)) \cap closed # {}) =>
              /\ recvPc'[s] = "running"
              /\ \E i \in EntriesOf(state', FrameIdentifier(packet)) :
                     LET value == state'.control_command_status_list[i].value
                     IN  /\ CutAfterLastNonZero(value, FrameValueBytes(packet))
                         /\ \A k \in Sinks :
                                inbox'[k] =
                                    IF /\ k \in SubscribersOf(state, FrameIdentifier(packet))
                                       /\ k \notin closed
                                    THEN Append(inbox[k], value)
                                    ELSE inbox[k]
                         /\ Emitted([tag |-> "ControlCommand",
                                     status |-> [identifier |-> FrameIdentifier(packet),
                                                 value |-> value]])]_vars

\* Sinks 1 and 2 subscribed to OwnsConnection in this order, sink 1 went
\* away, and the frame with value 01 reached sink 2, the shadow and the
\* general sink.
C17_Witness ==
    /\ state.control_command_subscribers[OwnsConnection] = <<1, 2>>
    /\ closed = {1}
    /\ inbox = << <<>>, << <<1>> >> >>
    /\ state.control_command_status_list =
           << [identifier |-> OwnsConnection, value |-> <<1>>] >>
    /\ events = << [tag |-> "ControlCommand",
                    status |-> [identifier |-> OwnsConnection, value |-> <<1>>]] >>

(***************************************************************************)
(* C18.  Persistence writes of Information and ProximityKeysResponse       *)
(* packets are ordered like the in-memory mutations: a packet processed    *)
(* without filesystem error leaves the file equal to the serialisation of  *)
(* the in-memory device records before any other packet's persistence      *)
(* attempt starts, and no write stores an older snapshot over a newer one, *)
(* also when receive_packet is entered by several callers.                 *)
(***************************************************************************)
C18_WritesFollowMutations ==
    /\ [](\A c \in Callers :
              saving[c] # None =>
                  /\ saving[c] = Some(state.devices)
                  /\ \A d \in Callers \ {c} : saving[d] = None)
    /\ [][/\ \A c \in Callers :
                 ReceiveSave(c, "ok") => file' = Some(state'.devices)
          /\ file' # file => file' = Some(state'.devices)]_vars

\* Both keys of the peer were stored by two responses and the file holds the
\* records as they are in memory.
C18_Witness ==
    /\ LockFree
    /\ PeerKeys(state) # None
    /\ PeerKeys(state)[1].irk \notin {<<>>, <<49, 49>>}
    /\ PeerKeys(state)[1].enc_key # <<>>
    /\ file = Some(state.devices)

\* The elements of a sequence.
Elements(seq) == {seq[i] : i \in 1..Len(seq)}

\* The call returned Ok and left packet at the back of the sender's queue.
Enqueued(packet) ==
    /\ ret' = "Ok"
    /\ state.sender # 0
    /\ chan'[state.sender] = Append(chan[state.sender], packet)

\* The call returned Ok and the packet at the back of the queue is the header,
\* the SmartRouting opcode, 0x00 and a body of n bytes that starts with the
\* bytes of addr in reversed order.
EnqueuedRouting(n, addr) ==
    /\ ret' = "Ok"
    /\ state.sender # 0
    /\ LET queue == chan'[state.sender]
           packet == queue[Len(queue)]
           body == SubSeq(packet, 7, Len(packet))
       IN  /\ Len(queue) = Len(chan[state.sender]) + 1
           /\ SubSeq(packet, 1, 6) = <<4, 0, 4, 0, 16, 0>>
           /\ Len(body) = n
           /\ SubSeq(body, 1, 6) =
                  <<addr[6], addr[5], addr[4], addr[3], addr[2], addr[1]>>

(***************************************************************************)
(* C19.  Every packet an encoder other than the handshake enqueues is      *)
(* 04 00 04 00, the opcode byte, 0x00 and the body: SetFeatureFlags is     *)
(* opcode 0x4D with body FF 00 00 00 00 00 00 00, RequestNotifications is  *)
(* opcode 0x0F with body FF FF FF FF, ProximityKeysRequest is opcode 0x30  *)
(* with the OR of the requested key-type bytes and 0x00; the handshake is  *)
(* enqueued as its raw 16 bytes with no prefix.                            *)
(***************************************************************************)
C19_EncoderLayouts ==
    /\ [](\A s \in Sessions :
              \A packet \in Elements(chan[s]) \cup Elements(wire[s]) :
                  \/ packet = <<0, 0, 4, 0, 1, 0, 2, 0, 0, 0, 0, 0, 0, 0, 0, 0>>
                  \/ /\ Len(packet) >= 6
                     /\ SubSeq(packet, 1, 4) = <<4, 0, 4, 0>>
                     /\ packet[5] \in {77, 15, 48, 30, 16, 41}
                     /\ packet[6] = 0)
    /\ [][/\ (SendSetFeatureFlagsPacket /\ ret' = "Ok") =>
                 Enqueued(<<4, 0, 4, 0, 77, 0, 255, 0, 0, 0, 0, 0, 0, 0>>)
          /\ (SendNotificationRequest /\ ret' = "Ok") =>
                 Enqueued(<<4, 0, 4, 0, 15, 0, 255, 255, 255, 255>>)
          /\ \A key_types \in KeyTypeArgs :
                 (SendProximityKeysRequest(key_types) /\ ret' = "Ok") =>
                     Enqueued(<<4, 0, 4, 0, 48, 0,
                                (IF 1 \in Elements(key_types) THEN 1 ELSE 0)
                                  + (IF 4 \in Elements(key_types) THEN 4 ELSE 0),
                                0>>)
          /\ (SendHandshake /\ ret' = "Ok") =>
                 Enqueued(<<0, 0, 4, 0, 1, 0, 2, 0, 0, 0, 0, 0, 0, 0, 0, 0>>)]_vars

\* The handshake is queued behind a request for both keys that the send task
\* has written.
C19_Witness ==
    /\ wire[1] = << <<4, 0, 4, 0, 48, 0, 5, 0>> >>
    /\ chan[1] = << <<0, 0, 4, 0, 1, 0, 2, 0, 0, 0, 0, 0, 0, 0, 0, 0>> >>
    /\ ret = "Ok"

(***************************************************************************)
(* C20.  With MAC arguments of the form XX:XX:XX:XX:XX:XX the body of      *)
(* every SmartRouting command starts with the six target MAC bytes in      *)
(* reversed order and has the length of its variant: media-info-new-device *)
(* 112, hijack 106, media-info 138 for both streaming states, show-UI 134, *)
(* hijack-reversed 97, add-TIPI 86.                                        *)
(***************************************************************************)
C20_SmartRoutingBodies ==
    [][\A self \in MacArgs, target \in MacArgs :
          /\ (SendMediaInformationNewDevice(self.text, target.text) /\ ret' = "Ok") =>
                 EnqueuedRouting(112, target.addr)
          /\ (SendHijackRequest(target.text) /\ ret' = "Ok") =>
                 EnqueuedRouting(106, target.addr)
          /\ \A streaming_state \in BOOLEAN :
                 (/\ SendMediaInformation(self.text, target.text, streaming_state)
                  /\ ret' = "Ok") =>
                     EnqueuedRouting(138, target.addr)
          /\ (SendSmartRoutingShowUi(target.text) /\ ret' = "Ok") =>
                 EnqueuedRouting(134, target.addr)
          /\ (SendHijackReversed(target.text) /\ ret' = "Ok") =>
                 EnqueuedRouting(97, target.addr)
          /\ (SendAddTipiDevice(self.text, target.text) /\ ret' = "Ok") =>
                 EnqueuedRouting(86, target.addr)]_vars

(***************************************************************************)
(* C21.  A ControlCommand frame with a known identifier delivers to every  *)
(* subscriber of the identifier, and in the ControlCommand event on the    *)
(* general sink, the value the frame stored in the shadow; every value     *)
(* delivered has 1 to 4 bytes, so its first byte exists.                   *)
(***************************************************************************)
C21_DeliveredIsStored ==
    /\ [](/\ \A k \in Sinks : \A i \in 1..Len(inbox[k]) : Len(inbox[k][i]) \in 1..4
          /\ \A i \in 1..Len(events) :
                 events[i].tag = "ControlCommand" =>
                     Len(events[i].status.value) \in 1..4)
    /\ [][\A s \in Sessions, packet \in DeliveryFrames :
              RecvPacket(s, packet, "ok") =>
                  \E i \in EntriesOf(state', FrameIdentifier(packet)) :
                      LET stored == state'.control_command_status_list[i].value
                      IN  /\ \A k \in SubscribersOf(state, FrameIdentifier(packet)) :
                                 /\ Len(inbox'[k]) = Len(inbox[k]) + 1
                                 /\ inbox'[k][Len(inbox'[k])] = stored
                          /\ state.event_tx =>
                                 /\ Len(events') = Len(events) + 1
                                 /\ events'[Len(events')].tag = "ControlCommand"
                                 /\ events'[Len(events')].status.identifier =
                                        FrameIdentifier(packet)
                                 /\ events'[Len(events')].status.value = stored]_vars

\* Both sinks subscribed to SingleClickMode and received the four-byte value
\* 00 00 00 07 and then the one-byte value of an all-zero frame.
C21_Witness ==
    /\ inbox = << << <<0, 0, 0, 7>>, <<0>> >>, << <<0, 0, 0, 7>>, <<0>> >> >>
    /\ Len(events) = 2
    /\ events[2].status = [identifier |-> SingleClickMode, value |-> <<0>>]
    /\ \E i \in EntriesOf(state, SingleClickMode) :
           state.control_command_status_list[i].value = <<0>>

(***************************************************************************)
(* C22.  Once the recv task has terminated, by peer close or by read       *)
(* error, the send task terminates too: the sender handle is cleared, the  *)
(* send task handles what is still queued and stops; a failed socket write *)
(* stops it at once, and a stopped send task writes nothing more.          *)
(***************************************************************************)
C22_SendTaskTerminates ==
    /\ \A s \in Sessions :
           (recvPc[s] \in {"done_eof", "done_err"}) ~> (sendPc[s] \in {"done", "failed"})
    /\ [](\A s \in Sessions : sendPc[s] = "done" => chan[s] = <<>> /\ state.sender # s)
    /\ [][\A s \in Sessions :
              /\ (Len(chan'[s]) < Len(chan[s]) /\ wire'[s] = wire[s]) =>
                     sendPc'[s] = "failed"
              /\ sendPc[s] \in {"done", "failed"} =>
                     sendPc'[s] = sendPc[s] /\ wire'[s] = wire[s]]_vars

\* The peer closed, the recv task cleared the handle and ended, and the send
\* task wrote the two queued packets and stopped.
C22_Witness ==
    /\ recvPc[1] = "done_eof"
    /\ sendPc[1] = "done"
    /\ Len(wire[1]) = 2
    /\ state.sender = 0

(***************************************************************************)
(* C23.  In every reachable state the ownership flag is true exactly when  *)
(* the control-command shadow has an entry for OwnsConnection whose first  *)
(* value byte is not zero.                                                 *)
(***************************************************************************)
C23_OwnsMirrorsShadow ==
    state.owns <=>
        \E i \in EntriesOf(state, OwnsConnection) :
            state.control_command_status_list[i].value[1] # 0

\* The flag was set by a frame, a later frame 00 02 00 00 took it back with
\* the entry still in the shadow, and the peer closed.
C23_Witness ==
    /\ ~state.owns
    /\ \E i \in EntriesOf(state, OwnsConnection) :
           state.control_command_status_list[i].value = <<0, 2>>
    /\ inbox[1] = << <<1>>, <<0, 2>> >>
    /\ recvPc[1] = "done_eof"

\* The values the shadow of st holds for the identifier.
ValuesOf(st, identifier) ==
    { st.control_command_status_list[i].value : i \in EntriesOf(st, identifier) }

(***************************************************************************)
(* C24.  A ControlCommand frame whose identifier byte is outside the       *)
(* enumeration changes nothing in the shared state and delivers nothing to *)
(* any subscriber or to the general sink; a frame with a known identifier  *)
(* other than 0x06 leaves the ownership flag and the shadow entries of all *)
(* other identifiers as they were.                                         *)
(***************************************************************************)
C24_ControlFrameEffect ==
    [][\A s \in Sessions, packet \in ControlFrames :
          RecvPacket(s, packet, "ok") =>
              /\ FrameIdentifier(packet) \notin ControlCommandIdentifiers =>
                     /\ state' = state
                     /\ inbox' = inbox
                     /\ events' = events
                     /\ recvPc'[s] = "running"
              /\ FrameIdentifier(packet) \in ControlCommandIdentifiers \ {6} =>
                     /\ state'.owns = state.owns
                     /\ \A other \in ControlCommandIdentifiers \ {FrameIdentifier(packet)} :
                            ValuesOf(state', other) = ValuesOf(state, other)]_vars

\* Three frames were parsed with the event channel set: OwnsConnection 01,
\* SingleClickMode 00 02, and one that left no trace.
C24_Witness ==
    /\ received[1] = 3
    /\ state.owns
    /\ state.event_tx
    /\ state.control_command_status_list =
           << [identifier |-> OwnsConnection, value |-> <<1>>],
              [identifier |-> SingleClickMode, value |-> <<0, 2>>] >>
    /\ events = << [tag |-> "ControlCommand",
                    status |-> [identifier |-> OwnsConnection, value |-> <<1>>]],
                   [tag |-> "ControlCommand",
                    status |-> [identifier |-> SingleClickMode, value |-> <<0, 2>>]] >>
    /\ state.control_command_subscribers[SingleClickMode] = <<1, 2>>
    /\ inbox = << << <<0, 2>> >>, << <<0, 2>> >> >>

\* The entries of a BatteryInfo frame that are kept: the component byte is
\* 0x02, 0x04 or 0x08 and the status byte is 0x01, 0x02 or 0x04.
KeptEntries(packet) ==
    { i \in 0..(At(packet, 6) - 1) :
          /\ At(packet, 7 + 5 * i) \in {2, 4, 8}
          /\ At(packet, 10 + 5 * i) \in {1, 2, 4} }

\* list holds the kept entries of the frame, in frame order.
KeptInFrameOrder(list, packet) ==
    /\ Len(list) = Cardinality(KeptEntries(packet))
    /\ \A i \in KeptEntries(packet) :
           LET r == Cardinality({j \in KeptEntries(packet) : j < i}) + 1
           IN  list[r] = [component |-> At(packet, 7 + 5 * i),
                          level |-> At(packet, 9 + 5 * i),
                          status |-> At(packet, 10 + 5 * i)]

(***************************************************************************)
(* C25.  A BatteryInfo frame with count N = payload[2] and at least        *)
(* 3 + 5N payload bytes replaces the whole battery shadow with its entries *)
(* in frame order, without those whose component byte is not 0x02, 0x04,   *)
(* 0x08 or whose status byte is not 0x01, 0x02, 0x04; the BatteryInfo      *)
(* event carries the same list.                                            *)
(***************************************************************************)
C25_BatteryShadowReplaced ==
    [][\A s \in Sessions, packet \in BatteryInputs :
          (RecvPacket(s, packet, "ok") /\ Len(packet) - 4 >= 3 + 5 * At(packet, 6)) =>
              /\ KeptInFrameOrder(state'.battery_info, packet)
              /\ state.event_tx =>
                     events' = Append(events, [tag |-> "BatteryInfo",
                                               list |-> state'.battery_info])
              /\ recvPc'[s] = "running"]_vars

\* 04 00 04 00 04 00 02 04 01 32 01 00 02 01 28 02 00 came after the frame
\* with three entries: Left 0x32 Charging, Right 0x28 NotCharging.
C25_Witness ==
    /\ state.battery_info = << [component |-> 4, level |-> 50, status |-> 1],
                               [component |-> 2, level |-> 40, status |-> 2] >>
    /\ events = << [tag |-> "BatteryInfo",
                    list |-> << [component |-> 2, level |-> 7, status |-> 2],
                                [component |-> 8, level |-> 100, status |-> 4] >>],
                   [tag |-> "BatteryInfo", list |-> state.battery_info] >>

(***************************************************************************)
(* C26.  After any sequence of received frames every record of the battery *)
(* shadow, and of every BatteryInfo event, has a level from 0 to 100.      *)
(***************************************************************************)
C26_BatteryLevelInRange ==
    /\ \A i \in 1..Len(state.battery_info) : state.battery_info[i].level \in 0..100
    /\ \A i \in 1..Len(events) :
           events[i].tag = "BatteryInfo" =>
               \A j \in 1..Len(events[i].list) : events[i].list[j].level \in 0..100

(***************************************************************************)
(* C27.  An AudioSource frame with at least 9 payload bytes replaces the   *)
(* audio-source shadow with (MAC, kind): MAC is payload[2..8] in reversed  *)
(* order, upper-case hex separated by colons, kind is payload[8] mapped by *)
(* 0 None, 1 Call, 2 Media and every other byte None; the emitted event    *)
(* carries the same pair.                                                  *)
(***************************************************************************)
C27_AudioSourceDecoded ==
    [][\A s \in Sessions, c \in AudioCases :
          RecvPacket(s, AudioFrameOf(c), "ok") =>
              /\ state'.audio_source = Some([mac |-> c.text, type |-> c.kind])
              /\ state.event_tx =>
                     events' = Append(events, [tag |-> "AudioSource",
                                               source |-> [mac |-> c.text,
                                                           type |-> c.kind]])
              /\ recvPc'[s] = "running"]_vars

\* AA BB CC DD EE FF with kind Media was decoded, then the frame with kind
\* byte 7 replaced it.
C27_Witness ==
    /\ Len(events) = 2
    /\ events[1].source.type = 2
    /\ events[1].source.mac =
           <<70, 70, 58, 69, 69, 58, 68, 68, 58, 67, 67, 58, 66, 66, 58, 65, 65>>
    /\ events[2].source.type = 0
    /\ state.audio_source = Some(events[2].source)
    /\ state.audio_source[1].mac =
           <<55, 67, 58, 66, 48, 58, 57, 70, 58, 48, 48, 58, 48, 65, 58, 48, 49>>

(***************************************************************************)
(* C28.  For every name passed to the rename command the body is the size  *)
(* byte, 0x00 and the UTF-8 bytes of the name, and the size byte is the    *)
(* number of name bytes that follow it.                                    *)
(***************************************************************************)
C28_RenameSizeByte ==
    [][\A name \in NameArgs :
          (SendRenamePacket(name) /\ ret' = "Ok") =>
              /\ state.sender # 0
              /\ LET queue == chan'[state.sender]
                     packet == queue[Len(queue)]
                 IN  /\ Len(queue) = Len(chan[state.sender]) + 1
                     /\ SubSeq(packet, 1, 6) = <<4, 0, 4, 0, 30, 0>>
                     /\ packet[8] = 0
                     /\ SubSeq(packet, 9, Len(packet)) = name
                     /\ packet[7] = Len(packet) - 8]_vars

(***************************************************************************)
(* C29.  Every call to connect returns.  The CID polling loop ends as soon *)
(* as the peer CID is read non-zero (the session goes on to Ready), on the *)
(* peer-address error ENOTCONN (Closed), or when the timeout budget is     *)
(* used up (Closed); another peer-address error does not end the loop, and *)
(* polling goes on until one of these three exits.                         *)
(***************************************************************************)
C29_ConnectReturns ==
    /\ \A s \in Sessions : (connPc[s] # "idle") ~> Returned(s)
    /\ \A s \in Sessions : (connPc[s] = "established") ~> (connPc[s] = "ready")
    /\ [](\A s \in Sessions :
              connPc[s] \in {"ret_enotconn", "ret_cid_timeout"} =>
                  /\ state.sender # s
                  /\ recvPc[s] = "unspawned"
                  /\ sendPc[s] = "unspawned")
    /\ [][\A s \in Sessions :
              /\ connPc[s] = "polling" =>
                     connPc'[s] \in {"polling", "established", "ret_enotconn",
                                     "ret_cid_timeout"}
              /\ \A outcome \in PeerAddrOutcomes, slept \in {200, 10000} :
                     PollCid(s, outcome, slept) =>
                         IF outcome.ok /\ outcome.v # 0
                         THEN connPc'[s] = "established"
                         ELSE IF ~outcome.ok /\ outcome.v = 107
                         THEN connPc'[s] = "ret_enotconn"
                         ELSE IF elapsed[s] >= 10000
                         THEN connPc'[s] = "ret_cid_timeout"
                         ELSE /\ connPc'[s] = "polling"
                              /\ elapsed'[s] > elapsed[s]]_vars

\* The loop polled through the whole budget, in turns of 200 ms, and the call
\* returned.
C29_Witness ==
    /\ connPc[1] = "ret_cid_timeout"
    /\ elapsed[1] = 10000
    /\ state.sender = 0
    /\ ret = "NotConnected: L2CAP stream not connected"

(***************************************************************************)
(* C30.  The send task writes the packets to the socket in the order in    *)
(* which the send calls enqueued them, each enqueued packet as one socket  *)
(* write and at most once, and writes nothing that was not enqueued.  In   *)
(* every step the written packets followed by the queued ones are what     *)
(* they were, or have one packet more at the back (an enqueue completed),  *)
(* or the first queued packet has become the last written one, or a failed *)
(* write has dropped the queue.                                            *)
(***************************************************************************)
C30_WireOrderIsQueueOrder ==
    /\ [](\A s \in Sessions : \A i \in 1..Len(wire[s]) :
              wire[s][i] \in { <<0, 0, 4, 0, 1, 0, 2, 0, 0, 0, 0, 0, 0, 0, 0, 0>>,
                               <<4, 0, 4, 0, 9, 0, 6, 1, 0, 0, 0>> })
    /\ [][\A s \in Sessions :
              \/ /\ wire'[s] = wire[s]
                 /\ chan'[s] = chan[s]
              \/ /\ wire'[s] = wire[s]
                 /\ ret' = "Ok"
                 /\ state.sender = s
                 /\ Len(chan'[s]) = Len(chan[s]) + 1
                 /\ SubSeq(chan'[s], 1, Len(chan[s])) = chan[s]
              \/ /\ chan[s] # <<>>
                 /\ sendPc[s] = "running"
                 /\ wire'[s] = Append(wire[s], Head(chan[s]))
                 /\ chan'[s] = Tail(chan[s])
              \/ /\ chan[s] # <<>>
                 /\ wire'[s] = wire[s]
                 /\ chan'[s] = <<>>
                 /\ sendPc'[s] = "failed"]_vars

\* The control command was enqueued before the handshake and both are written,
\* in that order.
C30_Witness ==
    /\ wire[1] = << <<4, 0, 4, 0, 9, 0, 6, 1, 0, 0, 0>>,
                    <<0, 0, 4, 0, 1, 0, 2, 0, 0, 0, 0, 0, 0, 0, 0, 0>> >>
    /\ chan[1] = <<>>
    /\ sendPc[1] = "running"
    /\ ret = "Ok"

(***************************************************************************)
(* C31.  Every packet for which a send call returned success is eventually *)
(* written to the socket by the send task, when no socket write fails and  *)
(* the send task is scheduled fairly: the n-th packet accepted by a        *)
(* session becomes the n-th packet on its wire, also when the recv task    *)
(* has ended and cleared the sender handle while the packet was queued.    *)
(* A send call that returns success has put its packet at the back of the  *)
(* queue, and only a write of the send task takes a packet out of it.      *)
(***************************************************************************)
C31_AcceptedIsWritten ==
    /\ \A s \in Sessions : \A n \in 1..MaxSends :
       \A data \in { <<0, 0, 4, 0, 1, 0, 2, 0, 0, 0, 0, 0, 0, 0, 0, 0>>,
                     <<4, 0, 4, 0, 9, 0, 6, 1, 0, 0, 0>> } :
           (/\ Len(wire[s]) + Len(chan[s]) >= n
            /\ (wire[s] \o chan[s])[n] = data)
               ~> (Len(wire[s]) >= n /\ wire[s][n] = data)
    /\ [][\A s \in Sessions :
              /\ \A data \in OutboundPackets :
                     (SendPacket(data) /\ ret' = "Ok" /\ state.sender = s) =>
                         chan'[s] = Append(chan[s], data)
              /\ Len(chan'[s]) < Len(chan[s]) =>
                     wire'[s] = Append(wire[s], Head(chan[s]))
              /\ (state.sender = s /\ state'.sender # s) =>
                     chan'[s] = chan[s] /\ wire'[s] = wire[s]]_vars

\* A read error ended the recv task and the handle is cleared while the
\* second accepted packet is still queued; the send task has written the
\* first and goes on.
C31_Witness ==
    /\ recvPc[1] = "done_err"
    /\ state.sender = 0
    /\ ret = "Ok"
    /\ Len(wire[1]) = 1
    /\ Len(chan[1]) = 1
    /\ sendPc[1] = "running"

(***************************************************************************)
(* C32.  A sender handle installed by a successful connect stays in the    *)
(* shared state until the recv task of that same session terminates (or a  *)
(* later connect installs its own): the termination of the recv task of an *)
(* earlier session does not clear the handle of a newer session.           *)
(***************************************************************************)
C32_SenderStaysUntilOwnRecvEnds ==
    [][\A s \in Connections :
           (state.sender = s /\ state'.sender # s) =>
               \/ recvPc[s] \in {"eof", "err"} /\ recvPc'[s] \in {"done_eof", "done_err"}
               \/ state'.sender > s]_vars

(***************************************************************************)
(* C33.  While a caller is suspended in a send call on a full outbound     *)
(* queue, the recv task, with a frame read from the socket, can take the   *)
(* state lock and process the frame: the suspended sender does not hold    *)
(* the lock.                                                               *)
(***************************************************************************)
C33_RecvRunsBesideSuspendedSend ==
    \A s \in Sessions :
        (/\ sending # None
         /\ state.sender = s
         /\ Len(chan[s]) = CHANNEL_CAPACITY
         /\ recvPc[s] = "running"
         /\ received[s] < MaxFrames) =>
            ENABLED (\E packet \in ContentionFrames : RecvPacket(s, packet, "ok"))

(***************************************************************************)
(* C34.  The callers, the recv task and the send task never deadlock.  In  *)
(* a Ready session whose socket accepts writes and reads: a caller         *)
(* suspended on the full outbound queue gets its room and returns; the     *)
(* state lock, when held, is released, so a caller waiting for it          *)
(* proceeds; and the recv task, waiting for the lock with a frame read,    *)
(* processes the frame.  No reachable state with the lock held is stuck:   *)
(* the send task or the suspended send can step.                           *)
(***************************************************************************)
C34_NoDeadlock ==
    /\ (sending # None) ~> (sending = None /\ ret = "Ok")
    /\ (~LockFree) ~> LockFree
    /\ \A s \in Sessions : \A n \in 0..(MaxFrames - 1) :
           (recvPc[s] = "running" /\ received[s] = n) ~> (received[s] = n + 1)
    /\ [](\A s \in Sessions :
              (connPc[s] = "ready" /\ state.sender = s /\ sending # None) =>
                  /\ sendPc[s] = "running"
                  /\ Len(chan[s]) = CHANNEL_CAPACITY => ENABLED SendWrite(s, TRUE)
                  /\ Len(chan[s]) < CHANNEL_CAPACITY => ENABLED SendResume)

\* The recv task has processed a frame, a caller is suspended on the full
\* queue holding the lock, and the send task has written a packet: the
\* suspended send can complete.
C34_Witness ==
    /\ sending = Some(Handshake)
    /\ received[1] = 1
    /\ state.owns
    /\ recvPc[1] = "running"
    /\ Len(chan[1]) = CHANNEL_CAPACITY - 1
    /\ Len(wire[1]) = 2

====
